---- MODULE Spec2Model ----
(***************************************************************************)
(* Timetable engine of mtr-timetable-api (src/mtr_timetable_github.py,     *)
(* src/app.py): the departure index builder gen_departure_data, the query  *)
(* get_train and the selectors random_train / route_random_train.          *)
(*                                                                         *)
(* Strings are sequences of characters; a character is a one-letter string *)
(* ("a", "|", "7") or the token of one CJK glyph in one script ("Zs" the   *)
(* simplified, "Zt" the traditional, "Zj" the Japanese form of glyph Z).   *)
(* A station id that is None is the string "None"; a time or offset that   *)
(* is None is the empty sequence; a call that returns None or False        *)
(* returns <<"None">> or <<"False">>, its other results being triples.     *)
(***************************************************************************)
EXTENDS Integers, Sequences, FiniteSets, TLC

(* ------------------------------------------------------------------ *)
(* Program constants                                                   *)
(* ------------------------------------------------------------------ *)
DAY == 86400
\* 8 * 60 * 60, the fixed bias added to every offset
TZ_SHIFT == 28800
TRIES == 3000
FALLBACK_TRIES == 1000

(* ------------------------------------------------------------------ *)
(* Bounds of the model                                                 *)
(* ------------------------------------------------------------------ *)
\* cap of the picks of the sampling loop that leave its budget untouched; the
\* code itself does not bound them
MaxSkips == 2

(* ------------------------------------------------------------------ *)
(* Sequence and string helpers                                         *)
(* ------------------------------------------------------------------ *)
None == "None"
NoTime == <<>>
RetNone == <<"None">>
RetFalse == <<"False">>

Range(s) == {s[k] : k \in 1..Len(s)}

Min(a, b) == IF a <= b THEN a ELSE b

\* min() and max() of a non-empty list of integers
MinOf(s) == CHOOSE m \in Range(s) : \A x \in Range(s) : m <= x
MaxOf(s) == CHOOSE m \in Range(s) : \A x \in Range(s) : m >= x

\* list.insert(0, x)
Insert0(s, x) == <<x>> \o s

\* s[:n]
Take(s, n) == SubSeq(s, 1, Min(n, Len(s)))

\* str.split(sep): the sequence of segments between occurrences of sep
RECURSIVE SplitFrom(_, _, _, _)
SplitFrom(s, sep, k, cur) ==
    IF k > Len(s) THEN <<cur>>
    ELSE IF s[k] = sep THEN <<cur>> \o SplitFrom(s, sep, k + 1, <<>>)
    ELSE SplitFrom(s, sep, k + 1, Append(cur, s[k]))

Split(s, sep) == SplitFrom(s, sep, 1, <<>>)

\* round(ms / 1000): Python 3 rounds halves to the even neighbour
Round1000(ms) ==
    LET q == ms \div 1000
        r == ms % 1000
    IN  IF r < 500 THEN q
        ELSE IF r > 500 THEN q + 1
        ELSE IF q % 2 = 0 THEN q ELSE q + 1

\* lexicographic order of Python tuples of integers (sequences of the same shape)
RECURSIVE TupleLess(_, _)
TupleLess(a, b) ==
    IF a = <<>> \/ b = <<>> THEN a = <<>> /\ b # <<>>
    ELSE IF Head(a) # Head(b) THEN Head(a) < Head(b)
    ELSE TupleLess(Tail(a), Tail(b))

\* the comparison key of a tuple (route_id, new_dep, (i, train_id)): Python
\* compares the nested tuple lexicographically in its place
DepKey(e) == <<e[1], e[2], e[3][1], e[3][2]>>

\* list.sort() of a list of such tuples: stable insertion sort
RECURSIVE InsertSorted(_, _)
InsertSorted(s, x) ==
    IF s = <<>> THEN <<x>>
    ELSE IF TupleLess(DepKey(x), DepKey(Head(s))) THEN <<x>> \o s
    ELSE <<Head(s)>> \o InsertSorted(Tail(s), x)

RECURSIVE SortTuples(_)
SortTuples(s) ==
    IF s = <<>> THEN <<>>
    ELSE InsertSorted(SortTuples(SubSeq(s, 1, Len(s) - 1)), s[Len(s)])

(* ------------------------------------------------------------------ *)
(* Static data: data['stations'] and data['routes']                    *)
(* ------------------------------------------------------------------ *)
\* data['stations'].items() in file order: id, display name, short code (hex
\* string), and whether the station carries x/z coordinates
stations == <<
    [id |-> "A", name |-> <<"Zt", "|", "A", "b">>, station |-> <<"2", "a">>, xz |-> TRUE],
    [id |-> "B", name |-> <<"B", "o", "|", "b", "/", "d">>, station |-> <<"7">>, xz |-> TRUE],
    [id |-> "C", name |-> <<"c", "c">>, station |-> <<"1", "f">>, xz |-> TRUE],
    [id |-> "D", name |-> <<"Zj", "|", "e">>, station |-> <<"3", "0">>, xz |-> FALSE],
    [id |-> "E", name |-> <<"e", "e">>, station |-> <<"7">>, xz |-> TRUE] >>

StationIds == {stations[k].id : k \in 1..Len(stations)}

\* data['stations'][station_id]
StationOf(station_id) ==
    stations[CHOOSE k \in 1..Len(stations) : stations[k].id = station_id]

Stop(id, dwellTime) == [id |-> id, dwellTime |-> dwellTime]

NameL == <<"Zt", "|", "L">>
NameM == <<"M">>
NameN == <<"N", "|", "|", "X">>
NameQ == <<"Q">>

\* the routes a data file may hold
\* three stops with the timings of the specification's third scenario
RouteThreeStops ==
    [name |-> NameL, number |-> <<>>, hidden |-> FALSE,
     stations |-> <<Stop("A", 0), Stop("B", 5000), Stop("C", 0)>>,
     durations |-> <<60000, 120000>>]
\* dwell times that are no whole seconds
RouteHalfDwell ==
    [name |-> NameM, number |-> <<"2">>, hidden |-> FALSE,
     stations |-> <<Stop("C", 2500), Stop("B", 1500), Stop("A", 500)>>,
     durations |-> <<30000, 30000>>]
\* a loop stop: B and E share a short code
RouteLoopStop ==
    [name |-> NameN, number |-> <<" ">>, hidden |-> TRUE,
     stations |-> <<Stop("A", 0), Stop("B", 1000), Stop("E", 1000), Stop("C", 0)>>,
     durations |-> <<60000, 0, 60000>>]
\* fewer durations than legs
RouteShort ==
    [name |-> NameL, number |-> <<"2">>, hidden |-> FALSE,
     stations |-> <<Stop("A", 0), Stop("B", 0), Stop("C", 0)>>,
     durations |-> <<60000>>]
\* no durations
RouteNoDurations ==
    [name |-> NameM, number |-> <<>>, hidden |-> FALSE,
     stations |-> <<Stop("A", 0), Stop("B", 0)>>,
     durations |-> <<>>]
\* only loop stops
RouteOnlyLoop ==
    [name |-> NameQ, number |-> <<>>, hidden |-> FALSE,
     stations |-> <<Stop("B", 0), Stop("E", 0)>>,
     durations |-> <<1000>>]
\* two stops, more durations than legs, hidden, the name of the first route
RouteTwoStops ==
    [name |-> NameL, number |-> <<>>, hidden |-> TRUE,
     stations |-> <<Stop("A", 3000), Stop("C", 0)>>,
     durations |-> <<40500, 9000>>]

RouteShapes == {RouteThreeStops, RouteHalfDwell, RouteLoopStop, RouteShort,
                RouteNoDurations, RouteOnlyLoop, RouteTwoStops}

\* route ids present in data['routes']; the departure file also names route 3,
\* which data['routes'] does not hold
RouteIds == {1, 2}

\* raw departure offsets of one route, as the departure file holds them
OffsetLists == { <<0>>, <<-1, 86400>>, <<-86401>>, <<172800, 3600>>, <<>>, <<57600>> }

IgnoredChoices == { {}, {NameM} }

(* ------------------------------------------------------------------ *)
(* Text: case, scripts, numbers, times                                 *)
(* ------------------------------------------------------------------ *)
UpperCase == {"A", "B", "L", "M", "N", "Q", "X"}

\* str.lower() on one character
LowerChar(c) ==
    CASE c = "A" -> "a" [] c = "B" -> "b" [] c = "L" -> "l" [] c = "M" -> "m"
      [] c = "N" -> "n" [] c = "Q" -> "q" [] c = "X" -> "x" [] OTHER -> c

Lower(s) == [k \in 1..Len(s) |-> LowerChar(s[k])]

\* the four OpenCC converters, glyph by glyph: 's2t', 't2jp', 't2s', 'jp2t'
S2T(s) == [k \in 1..Len(s) |-> IF s[k] = "Zs" THEN "Zt" ELSE s[k]]
T2JP(s) == [k \in 1..Len(s) |-> IF s[k] = "Zt" THEN "Zj" ELSE s[k]]
T2S(s) == [k \in 1..Len(s) |-> IF s[k] = "Zt" THEN "Zs" ELSE s[k]]
JP2T(s) == [k \in 1..Len(s) |-> IF s[k] = "Zj" THEN "Zt" ELSE s[k]]

Digits == <<"0", "1", "2", "3", "4", "5", "6", "7", "8", "9">>
HexDigits == Digits \o <<"a", "b", "c", "d", "e", "f">>

DigitValue(c) == (CHOOSE k \in 1..Len(Digits) : Digits[k] = c) - 1

\* the digits of n >= 0 in a base, no leading zero
RECURSIVE ToBase(_, _, _)
ToBase(n, base, digits) ==
    IF n < base THEN <<digits[n + 1]>>
    ELSE Append(ToBase(n \div base, base, digits), digits[(n % base) + 1])

\* str(n) for n >= 0
Str(n) == ToBase(n, 10, Digits)

\* hex(n)[2:]: hex(-5) is '-0x5', so a negative number keeps the 'x'
HexOf(n) == IF n >= 0 THEN ToBase(n, 16, HexDigits) ELSE <<"x">> \o ToBase(0 - n, 16, HexDigits)

\* int(s) succeeds on an optional '-' followed by decimal digits
IsInt(s) ==
    LET body == IF s # <<>> /\ s[1] = "-" THEN Tail(s) ELSE s
    IN  body # <<>> /\ \A k \in 1..Len(body) : \E d \in 1..Len(Digits) : Digits[d] = body[k]

RECURSIVE DecimalValue(_)
DecimalValue(s) ==
    IF s = <<>> THEN 0
    ELSE 10 * DecimalValue(SubSeq(s, 1, Len(s) - 1)) + DigitValue(s[Len(s)])

IntOf(s) == IF s[1] = "-" THEN 0 - DecimalValue(Tail(s)) ELSE DecimalValue(s)

\* str(n).rjust(2, '0')
Rjust2(n) == IF n < 10 THEN <<"0">> \o Str(n) ELSE Str(n)

\* convert_time(t, use_second=True): 'HH:MM:SS'
ConvertTime(t) ==
    Rjust2(t \div (60 * 60)) \o <<":">> \o Rjust2((t % 3600) \div 60) \o <<":">> \o Rjust2(t % 60)

\* name.replace('||', ' ').replace('|', ' ')
RECURSIVE ReplaceBars(_)
ReplaceBars(n) ==
    IF n = <<>> THEN <<>>
    ELSE IF Len(n) >= 2 /\ n[1] = "|" /\ n[2] = "|" THEN <<" ">> \o ReplaceBars(SubSeq(n, 3, Len(n)))
    ELSE IF n[1] = "|" THEN <<" ">> \o ReplaceBars(Tail(n))
    ELSE <<n[1]>> \o ReplaceBars(Tail(n))

\* name.split('|')[0]
DisplayName(n) == Split(n, "|")[1]

(* ------------------------------------------------------------------ *)
(* Station resolution                                                  *)
(* ------------------------------------------------------------------ *)
\* station_short_id_to_id: the first station whose short code is hex(short_id)
station_short_id_to_id(short_id) ==
    LET hits == {k \in 1..Len(stations) : stations[k].station = HexOf(short_id)}
    IN  IF hits = {} THEN None
        ELSE stations[CHOOSE k \in hits : \A j \in hits : k <= j].id

\* SequenceMatcher: the matching blocks a[i..i+k-1] = b[j..j+k-1]
Blocks(a, b) ==
    {blk \in (1..Len(a)) \X (1..Len(b)) \X (1..Min(Len(a), Len(b))) :
        /\ blk[1] + blk[3] - 1 <= Len(a)
        /\ blk[2] + blk[3] - 1 <= Len(b)
        /\ SubSeq(a, blk[1], blk[1] + blk[3] - 1) = SubSeq(b, blk[2], blk[2] + blk[3] - 1)}

\* find_longest_match: the longest block, the earliest in a, then the earliest in b
LongestMatch(a, b) ==
    CHOOSE blk \in Blocks(a, b) :
        \A o \in Blocks(a, b) :
            \/ blk[3] > o[3]
            \/ blk[3] = o[3] /\ blk[1] < o[1]
            \/ blk[3] = o[3] /\ blk[1] = o[1] /\ blk[2] <= o[2]

\* the number of matched characters: the longest block, then both sides of it
RECURSIVE Matches(_, _)
Matches(a, b) ==
    IF a = <<>> \/ b = <<>> THEN 0
    ELSE IF Blocks(a, b) = {} THEN 0
    ELSE LET blk == LongestMatch(a, b)
         IN  blk[3]
             + Matches(SubSeq(a, 1, blk[1] - 1), SubSeq(b, 1, blk[2] - 1))
             + Matches(SubSeq(a, blk[1] + blk[3], Len(a)), SubSeq(b, blk[2] + blk[3], Len(b)))

\* ratio() = 2.0 * M / T as the fraction <<2M, T>>; 1.0 for two empty strings.
\* real_quick_ratio() and quick_ratio() are upper bounds of ratio(), so the
\* three tests of get_close_matches pass exactly when ratio() >= cutoff.
Ratio(a, b) ==
    IF Len(a) + Len(b) = 0 THEN <<1, 1>> ELSE <<2 * Matches(a, b), Len(a) + Len(b)>>

\* ratio >= cutoff for the cutoff 0.2
AtLeastCutoff(r) == 10 * r[1] >= 2 * r[2]

\* the position of a station in data['stations']; the ids sort in this order
StationRank(station_id) == CHOOSE k \in 1..Len(stations) : stations[k].id = station_id

\* max() of two (ratio, id) pairs: the larger ratio, then the larger id; a
\* pair is <<ratio as a fraction, rank of the id>>
NotBelow(c, o) ==
    \/ c[1][1] * o[1][2] > o[1][1] * c[1][2]
    \/ c[1][1] * o[1][2] = o[1][1] * c[1][2] /\ c[2] >= o[2]

\* get_close_matches: the id of the best (ratio, id) pair at or above the
\* cutoff, None when there is none
get_close_matches(words, possibilities) ==
    LET scored == {<<Ratio(possibilities[p][1], words[w]), StationRank(possibilities[p][2])>> :
                      w \in 1..Len(words), p \in 1..Len(possibilities)}
        cands == {c \in scored : AtLeastCutoff(c[1])}
    IN  IF cands = {} THEN None
        ELSE stations[(CHOOSE c \in cands : \A o \in cands : NotBelow(c, o))[2]].id

\* the names a station answers to: full name, part after the last '/', last
\* '|' segment, first '|' segment, all in lower case
StationNameForms(name) ==
    LET s_split == Split(name, "|")
        s_2_2 == s_split[Len(s_split)]
        parts == Split(s_2_2, "/")
        s_2 == parts[Len(parts)]
        s_3 == s_split[1]
    IN  {Lower(name), Lower(s_2), Lower(s_2_2), Lower(s_3)}

\* station_name_to_id with fuzzy_compare=True: the last station one of whose
\* names is the query in one of three scripts; the closest name otherwise
station_name_to_id(sta0) ==
    LET sta == Lower(sta0)
        tra1 == S2T(sta)
        sta_try == <<sta, tra1, T2JP(tra1)>>
        hits == {k \in 1..Len(stations) :
                    \E t \in 1..3 : sta_try[t] \in StationNameForms(stations[k].name)}
        with_xz == {k \in 1..Len(stations) : stations[k].xz}
        all_names == [n \in 1..Cardinality(with_xz) |->
                        LET k == CHOOSE k \in with_xz :
                                    Cardinality({j \in with_xz : j < k}) = n - 1
                        IN  <<stations[k].name, stations[k].id>>]
    IN  IF hits # {} THEN stations[CHOOSE k \in hits : \A j \in hits : k >= j].id
        ELSE get_close_matches(sta_try, all_names)

\* lines 331-338 of get_train: a number is a short code, anything else a name
ResolveReference(station) ==
    IF IsInt(station) THEN station_short_id_to_id(IntOf(station))
    ELSE station_name_to_id(station)

\* what a caller may pass as station: short codes 42 (A), 7 (B and E), 48 (D),
\* 9 (no station), -7; names in several scripts and cases, the name of E, which
\* its short code does not reach; a name close to one station; a name close to
\* none
StationRefs == { <<"4", "2">>, <<"7">>, <<"4", "8">>, <<"9">>, <<"-", "7">>,
                 <<"c", "c">>, <<"Zs">>, <<"A", "B">>, <<"o">>, <<"z">>, <<"e", "e">> }

\* the resolution of every reference, computed once
ResolveTable == [s \in StationRefs |-> ResolveReference(s)]

ResolveStation(station) == ResolveTable[station]

(* ------------------------------------------------------------------ *)
(* State                                                               *)
(* ------------------------------------------------------------------ *)
VARIABLES
    routes,             \* data['routes']: route id -> route record
    dep_data,           \* the departure file: <<route id, raw offsets>> in file order
    IGNORED_LINES,      \* route names the builder ignores
    bpc,                \* gen_departure_data: position ("route", "pair", "write", "done")
    ridx,               \* gen_departure_data: index of the current entry of dep_data
    loc,                \* gen_departure_data: locals of the current route
    station_train_id,   \* station id -> next train id
    station_route_dep,  \* station id -> eng_name -> sorted list of departures
    all_route_dep,      \* per-station index: station id -> train id -> <<route, i, dep>>
    trains,             \* per-route train list: route id -> list of trains
    built,              \* the two indices as gen_departure_data returned them
    cpc,                \* per caller: position in get_train ("idle", "arr", "dep", "done")
    cl,                 \* per caller: the locals of its get_train call
    result,             \* per caller: what its last call returned
    alone,              \* per caller: what the call returns when run alone on the built indices
    spc,                \* selector: position ("idle", "loop", "post", "done")
    sel,                \* selector: the locals of the call
    sresult,            \* selector: what the call returned or raised
    tpc,                \* get_text_timetable: position ("idle", "done")
    tl,                 \* get_text_timetable: the arguments and locals of the call
    tresult,            \* get_text_timetable: what the call returned or raised
    resolved,           \* the last call of a name resolver: operation, query and result
    directions          \* the last call of get_sta_directions: arguments, locals and result

invars == <<routes, dep_data, IGNORED_LINES>>
bvars == <<bpc, ridx, loc, station_train_id, station_route_dep, all_route_dep, trains, built>>
qvars == <<cpc, cl, result, alone>>
svars == <<spc, sel, sresult>>
tvars == <<tpc, tl, tresult>>
rvars == <<resolved>>
dvars == <<directions>>
vars == <<invars, bvars, qvars, svars, tvars, rvars, dvars>>

NoLoc == [route_id |-> 0, eng_name |-> <<>>, durations |-> <<>>,
          departures_new |-> <<>>, station_ids |-> <<>>, real_ids |-> <<>>,
          dwells |-> <<>>, dep |-> 0, timetable |-> <<>>, i |-> 0,
          dep_time |-> 0, station1 |-> "", di |-> 0]

\* the empty function (an empty dict)
EmptyDict == [x \in {} |-> 0]

\* d[k] = v on a dict
Put(d, k, v) == [x \in DOMAIN d \cup {k} |-> IF x = k THEN v ELSE d[x]]

\* d.setdefault(k, v): d[k] = v only when k is missing
PutIfAbsent(d, k, v) == IF k \in DOMAIN d THEN d ELSE Put(d, k, v)

\* the callers of the query functions
Callers == {"c1", "c2"}

NoResult == <<"NoResult">>

InitCallers ==
    /\ cpc = [c \in Callers |-> "idle"]
    /\ cl = [c \in Callers |-> <<>>]
    /\ result = [c \in Callers |-> NoResult]
    /\ alone = [c \in Callers |-> NoResult]

InitSelector ==
    /\ spc = "idle"
    /\ sel = <<>>
    /\ sresult = NoResult

\* no resolver and no get_sta_directions call was made yet
NoCall == <<>>

InitResolver == resolved = NoCall

InitDirections == directions = NoCall

InitTextCall ==
    /\ tpc = "idle"
    /\ tl = <<>>
    /\ tresult = NoResult

InitBuilder ==
    /\ bpc = "route"
    /\ ridx = 1
    /\ loc = NoLoc
    /\ station_train_id = EmptyDict
    /\ station_route_dep = EmptyDict
    /\ all_route_dep = EmptyDict
    /\ trains = EmptyDict
    /\ built = [station_tt |-> EmptyDict, train_tt |-> EmptyDict]

\* every data file the bounds allow
Init ==
    /\ routes \in [RouteIds -> RouteShapes]
    /\ \E o1 \in OffsetLists, o2 \in OffsetLists :
          dep_data = << <<1, o1>>, <<3, <<0>>>>, <<2, o2>> >>
    /\ IGNORED_LINES \in IgnoredChoices
    /\ InitBuilder
    /\ InitCallers
    /\ InitSelector
    /\ InitTextCall
    /\ InitResolver
    /\ InitDirections

(* ------------------------------------------------------------------ *)
(* gen_departure_data                                                  *)
(* ------------------------------------------------------------------ *)
\* eng_name: the second '|' segment of the name, the first when the second is
\* empty or the name has no '|'
EngName(n) ==
    LET parts == Split(n, "|")
    IN  IF Len(parts) >= 2 /\ parts[2] # <<>> THEN parts[2] ELSE parts[1]

\* one raw offset brought towards [0, 86400): a single day is added or removed
NormalizeOffset(x) ==
    IF x < 0 THEN x + DAY
    ELSE IF x >= DAY THEN x - DAY
    ELSE x

\* departures_new
NormalizeOffsets(departures) ==
    [k \in 1..Len(departures) |-> NormalizeOffset(departures[k])]

\* durations cut to one per leg when the route lists more
TrimDurations(durations, nstops) ==
    IF nstops - 1 < Len(durations) THEN Take(durations, nstops - 1) ELSE durations

\* the route of the current entry of the departure file
CurRouteId == dep_data[ridx][1]
CurDepartures == dep_data[ridx][2]

\* the 'continue' of lines 1428-1446, taken before trains[route_id] exists
SkipsEarly ==
    IF CurRouteId \notin DOMAIN routes THEN TRUE
    ELSE IF routes[CurRouteId].name \in IGNORED_LINES THEN TRUE
    ELSE routes[CurRouteId].durations = <<>>

\* the 'continue' of line 1460: fewer durations than legs
SkipsShort ==
    LET route == routes[CurRouteId]
    IN  Len(route.stations) - 1 > Len(TrimDurations(route.durations, Len(route.stations)))

\* a route that is not built: nothing is written but, past the early checks,
\* the empty train list of the route
SkipRoute ==
    /\ bpc = "route"
    /\ ridx <= Len(dep_data)
    /\ IF SkipsEarly THEN trains' = trains
       ELSE /\ SkipsShort
            /\ trains' = PutIfAbsent(trains, CurRouteId, <<>>)
    /\ ridx' = ridx + 1
    /\ UNCHANGED <<invars, rvars, dvars, tvars, qvars, svars, built, bpc, loc, station_train_id,
                   station_route_dep, all_route_dep>>

\* lines 1431-1478: the locals of a route that passes validation
StartRoute ==
    /\ bpc = "route"
    /\ ridx <= Len(dep_data)
    /\ ~SkipsEarly
    /\ ~SkipsShort
    /\ LET route == routes[CurRouteId]
           nstops == Len(route.stations)
           dwells == [k \in 1..nstops |-> route.stations[k].dwellTime]
       IN  /\ trains' = PutIfAbsent(trains, CurRouteId, <<>>)
           /\ loc' = [route_id |-> CurRouteId,
                      eng_name |-> EngName(route.name),
                      durations |-> TrimDurations(route.durations, nstops),
                      departures_new |-> NormalizeOffsets(CurDepartures),
                      station_ids |-> [k \in 1..nstops |->
                                          StationOf(route.stations[k].id).station],
                      real_ids |-> [k \in 1..nstops |-> route.stations[k].id],
                      dwells |-> dwells,
                      dep |-> IF nstops > 0 THEN 0 - Round1000(dwells[nstops]) ELSE 0,
                      timetable |-> <<>>,
                      i |-> nstops - 1,
                      dep_time |-> 0, station1 |-> "", di |-> 0]
    /\ bpc' = "pair"
    /\ UNCHANGED <<invars, rvars, dvars, tvars, qvars, svars, built, ridx, station_train_id,
                   station_route_dep, all_route_dep>>

\* One turn of the loop over the legs, last leg first (lines 1481-1512). loc.i
\* is the 0-based index of the later stop of the leg, as i in the code. The
\* inner loop reuses the name i; the outer for statement assigns it afresh.
LegDur == Round1000(loc.durations[loc.i])
LegArrTime == loc.dep
LegDepTime == loc.dep - LegDur
\* (the dwell of the later stop of the leg taken for that of the earlier one)
LegDwellOfLaterStop == Round1000(loc.dwells[loc.i + 1])
LegDwell == Round1000(loc.dwells[loc.i])

\* a leg between two stops of the same short code: only the running offset moves
CollapsedLeg ==
    /\ bpc = "pair"
    /\ loc.i >= 1
    /\ loc.station_ids[loc.i] = loc.station_ids[loc.i + 1]
    /\ loc' = [loc EXCEPT !.dep = loc.dep - LegDur - LegDwell, !.i = loc.i - 1]
    /\ UNCHANGED <<invars, rvars, dvars, tvars, qvars, svars, built, bpc, ridx, station_train_id,
                   station_route_dep, all_route_dep, trains>>

Leg ==
    /\ bpc = "pair"
    /\ loc.i >= 1
    /\ loc.station_ids[loc.i] # loc.station_ids[loc.i + 1]
    /\ LET s1 == loc.real_ids[loc.i]
       IN  /\ loc' = [loc EXCEPT !.dep = loc.dep - LegDur - LegDwell,
                                 !.timetable = Insert0(Insert0(loc.timetable, LegArrTime),
                                                       LegDepTime),
                                 !.dep_time = LegDepTime,
                                 !.station1 = s1,
                                 !.di = 1]
           /\ station_train_id' = PutIfAbsent(station_train_id, s1, 1)
           /\ station_route_dep' =
                 LET d1 == PutIfAbsent(station_route_dep, s1, EmptyDict)
                 IN  Put(d1, s1, PutIfAbsent(d1[s1], loc.eng_name, <<>>))
           /\ all_route_dep' = PutIfAbsent(all_route_dep, s1, EmptyDict)
    /\ bpc' = "write"
    /\ UNCHANGED <<invars, rvars, dvars, tvars, qvars, svars, built, ridx, trains>>

\* (the departure second left unwrapped)
NewDepNoWrap(dep_time, x) == dep_time + x + TZ_SHIFT

\* the departure second of the stop for one normalized offset (line 1516)
NewDep(dep_time, x) == (dep_time + x + TZ_SHIFT) % DAY

\* (the counter advanced before it is read)
NextTrainIdGap(counters, station) == counters[station] + 1

\* the id the next entry of a station gets (line 1517)
NextTrainId(counters, station) == counters[station]

\* all_route_dep[_station1][train_id] = (route_id, i, new_dep)  (line 1522)
RecordEntry(index, station, train_id, entry) ==
    Put(index, station, Put(index[station], train_id, entry))

\* lines 1515-1524: one departure of the stop, with the next id of the station
WriteDeparture ==
    /\ bpc = "write"
    /\ loc.di <= Len(loc.departures_new)
    /\ LET s1 == loc.station1
           i == loc.di - 1
           new_dep == NewDep(loc.dep_time, loc.departures_new[loc.di])
           train_id == NextTrainId(station_train_id, s1)
       IN  /\ station_route_dep' =
                 Put(station_route_dep, s1,
                     Put(station_route_dep[s1], loc.eng_name,
                         Append(station_route_dep[s1][loc.eng_name],
                                <<loc.route_id, new_dep, <<i, train_id>>>>)))
           /\ all_route_dep' =
                 RecordEntry(all_route_dep, s1, train_id, <<loc.route_id, i, new_dep>>)
           /\ station_train_id' = Put(station_train_id, s1, station_train_id[s1] + 1)
    /\ loc' = [loc EXCEPT !.di = loc.di + 1]
    /\ UNCHANGED <<invars, rvars, dvars, tvars, qvars, svars, built, bpc, ridx, trains>>

\* line 1527: the list of the stop is sorted once its departures are in
SortDepartures ==
    /\ bpc = "write"
    /\ loc.di > Len(loc.departures_new)
    /\ station_route_dep' =
          Put(station_route_dep, loc.station1,
              Put(station_route_dep[loc.station1], loc.eng_name,
                  SortTuples(station_route_dep[loc.station1][loc.eng_name])))
    /\ loc' = [loc EXCEPT !.i = loc.i - 1]
    /\ bpc' = "pair"
    /\ UNCHANGED <<invars, rvars, dvars, tvars, qvars, svars, built, ridx, station_train_id,
                   all_route_dep, trains>>

\* line 1529: a route whose legs all collapsed gets no train
NoTimetable ==
    /\ bpc = "pair"
    /\ loc.i < 1
    /\ loc.timetable = <<>>
    /\ bpc' = "route"
    /\ ridx' = ridx + 1
    /\ loc' = NoLoc
    /\ UNCHANGED <<invars, rvars, dvars, tvars, qvars, svars, built, station_train_id,
                   station_route_dep, all_route_dep, trains>>

\* (the template moved without the shift of eight hours)
ExpandTrainNoShift(timetable, x) == [k \in 1..Len(timetable) |-> timetable[k] + x]

\* new_timetable (line 1534): the template moved to one normalized offset
ExpandTrain(timetable, x) == [k \in 1..Len(timetable) |-> timetable[k] + x + TZ_SHIFT]

\* lines 1533-1535: one train per normalized offset
ExpandTrains ==
    /\ bpc = "pair"
    /\ loc.i < 1
    /\ loc.timetable # <<>>
    /\ trains' = Put(trains, loc.route_id,
                     trains[loc.route_id] \o
                        [k \in 1..Len(loc.departures_new) |->
                            ExpandTrain(loc.timetable, loc.departures_new[k])])
    /\ bpc' = "route"
    /\ ridx' = ridx + 1
    /\ loc' = NoLoc
    /\ UNCHANGED <<invars, rvars, dvars, tvars, qvars, svars, built, station_train_id,
                   station_route_dep, all_route_dep>>

\* line 1546: the indices are returned
FinishBuild ==
    /\ bpc = "route"
    /\ ridx > Len(dep_data)
    /\ bpc' = "done"
    /\ built' = [station_tt |-> all_route_dep, train_tt |-> trains]
    /\ UNCHANGED <<invars, rvars, dvars, tvars, qvars, svars, ridx, loc, station_train_id,
                   station_route_dep, all_route_dep, trains>>

NextBuild ==
    \/ SkipRoute
    \/ StartRoute
    \/ CollapsedLeg
    \/ Leg
    \/ WriteDeparture
    \/ SortDepartures
    \/ NoTimetable
    \/ ExpandTrains
    \/ FinishBuild

SpecBuild == Init /\ [][NextBuild]_vars

(* ------------------------------------------------------------------ *)
(* Properties of gen_departure_data                                    *)
(* ------------------------------------------------------------------ *)
\* the train ids of a station in the per-station index
IdsOf(index, s) == DOMAIN index[s]

\* the raw offsets the departure file gives for route r (<<>> when it has none)
RawOffsets(r) ==
    IF \E k \in 1..Len(dep_data) : dep_data[k][1] = r
    THEN dep_data[CHOOSE k \in 1..Len(dep_data) : dep_data[k][1] = r][2]
    ELSE <<>>

DenseIds ==
    \A s \in DOMAIN all_route_dep :
        IdsOf(all_route_dep, s) = 1..Cardinality(IdsOf(all_route_dep, s))

\* a step changes the entries of a station only by adding the id that follows
\* the ids it has, and never touches an entry that exists
IdsGrowInOrder ==
    \A s \in DOMAIN all_route_dep' :
        LET old == IF s \in DOMAIN all_route_dep THEN all_route_dep[s] ELSE EmptyDict
            new == all_route_dep'[s]
        IN  /\ \A id \in DOMAIN old : id \in DOMAIN new /\ new[id] = old[id]
            /\ \/ DOMAIN new = DOMAIN old
               \/ DOMAIN new = DOMAIN old \cup {Cardinality(DOMAIN old) + 1}

\* C3: in every state of a build the train ids of each station of the
\* per-station index are exactly 1..N, N the number of its entries, and every
\* step hands out the next id only: no gap, no reuse, no entry overwritten.
C3_DenseIncreasingIds == []DenseIds /\ [][IdsGrowInOrder]_vars

\* a finished build in which one station got entries of two routes
C3_Witness ==
    /\ bpc = "done"
    /\ \E s \in DOMAIN all_route_dep :
          /\ Cardinality(IdsOf(all_route_dep, s)) >= 3
          /\ \E a, b \in IdsOf(all_route_dep, s) :
                all_route_dep[s][a][1] # all_route_dep[s][b][1]

\* C4: every entry of the per-station index has a departure second in
\* [0, 86400), whatever the raw offsets are.
C4_DepartureSecondInDay ==
    \A s \in DOMAIN all_route_dep :
        \A id \in DOMAIN all_route_dep[s] :
            /\ all_route_dep[s][id][3] >= 0
            /\ all_route_dep[s][id][3] < DAY

\* an entry written for a raw offset more than a day before midnight, and one
\* written for a raw offset two days ahead
C4_Witness ==
    /\ bpc = "done"
    /\ \E s \in DOMAIN all_route_dep, id \in 1..3 :
          /\ id \in DOMAIN all_route_dep[s]
          /\ \E x \in Range(RawOffsets(all_route_dep[s][id][1])) : x < 0 - DAY
    /\ \E s \in DOMAIN all_route_dep, id \in 1..3 :
          /\ id \in DOMAIN all_route_dep[s]
          /\ \E x \in Range(RawOffsets(all_route_dep[s][id][1])) : x >= 2 * DAY

\* C5 as claimed: every normalized offset used for the expansion lies in
\* [0, 86400). The code moves an offset by one day only.
C5_NormalizedInDay ==
    \A k \in 1..Len(loc.departures_new) :
        loc.departures_new[k] >= 0 /\ loc.departures_new[k] < DAY

\* the routes C6 is about: built (named by the departure file, not ignored),
\* at least two stops, adjacent stops of different short codes, one duration
\* per leg, each a whole number of seconds
PlainRoute(r) ==
    LET route == routes[r]
        n == Len(route.stations)
    IN  /\ \E k \in 1..Len(dep_data) : dep_data[k][1] = r
        /\ route.name \notin IGNORED_LINES
        /\ n >= 2
        /\ Len(route.durations) = n - 1
        /\ \A k \in 1..(n - 1) :
              /\ StationOf(route.stations[k].id).station
                    # StationOf(route.stations[k + 1].id).station
              /\ route.durations[k] % 1000 = 0

\* train t = [dep0, arr1, dep1, ..., arr(n-1)] keeps the durations and dwells
TrainKeepsTimings(route, t) ==
    LET n == Len(route.stations)
    IN  /\ Len(t) = 2 * (n - 1)
        /\ \A k \in 0..(n - 2) : t[2 * k + 2] - t[2 * k + 1] = route.durations[k + 1] \div 1000
        /\ \A k \in 1..(n - 2) :
              t[2 * k + 1] - t[2 * k] = Round1000(route.stations[k + 1].dwellTime)

\* C6: a finished build holds, for every such route, one train per raw offset,
\* each of 2(n-1) offsets whose differences are the leg durations and the
\* dwell times of the interior stops, in seconds.
C6_TrainTimings ==
    bpc = "done" =>
        \A r \in DOMAIN routes :
            PlainRoute(r) =>
                /\ r \in DOMAIN trains
                /\ Len(trains[r]) = Len(RawOffsets(r))
                /\ \A k \in 1..Len(trains[r]) : TrainKeepsTimings(routes[r], trains[r][k])

\* the scenario of the specification (durations 60 s and 120 s, dwell 5 s),
\* built with two raw offsets, next to a route with dwell times of 1.5 s
C6_Witness ==
    /\ bpc = "done"
    /\ \E r \in DOMAIN routes :
          /\ PlainRoute(r)
          /\ routes[r].durations = <<60000, 120000>>
          /\ Len(trains[r]) = 2
          /\ trains[r][1][2] - trains[r][1][1] = 60
          /\ trains[r][1][3] - trains[r][1][2] = 5
          /\ trains[r][1][4] - trains[r][1][3] = 120
    /\ \E r \in DOMAIN routes :
          /\ PlainRoute(r)
          /\ routes[r].stations[2].dwellTime = 1500
          /\ Len(trains[r]) >= 1

(* ------------------------------------------------------------------ *)
(* Route resolution                                                    *)
(* ------------------------------------------------------------------ *)
\* str.strip() for the blank
RECURSIVE StripLeft(_)
StripLeft(x) == IF x # <<>> /\ x[1] = " " THEN StripLeft(Tail(x)) ELSE x

RECURSIVE StripRight(_)
StripRight(x) ==
    IF x # <<>> /\ x[Len(x)] = " " THEN StripRight(SubSeq(x, 1, Len(x) - 1)) ELSE x

Strip(x) == StripRight(StripLeft(x))

\* str.isascii(): no glyph of a CJK script
IsAscii(x) == \A k \in 1..Len(x) : x[k] \notin {"Zs", "Zt", "Zj"}

\* n.count('|') and '||' in n
CountBars(n) == Cardinality({k \in 1..Len(n) : n[k] = "|"})
HasDoubleBar(n) == \E k \in 1..(Len(n) - 1) : n[k] = "|" /\ n[k + 1] = "|"

\* lines 87-99: the names a route answers to, in the order they are tried
RouteNames(n, number) ==
    LET base == <<n, Split(n, "|")[1]>>
        has_eng == \/ HasDoubleBar(n) /\ CountBars(n) > 2
                   \/ ~HasDoubleBar(n) /\ CountBars(n) > 0
        eng_name == Split(n, "|")[2]
        names == IF has_eng /\ eng_name # <<>> THEN Append(base, eng_name) ELSE base
        numbered == [k \in 1..(Len(names) - 1) |-> names[k + 1] \o <<" ">> \o number]
    IN  IF number \notin {<<>>, <<" ">>} THEN names \o numbered ELSE names

\* lines 102-122: how often the names of one route match the query; each
\* match appends the id of the route to the result once more
MatchCount(route, route_name) ==
    LET names == RouteNames(route.name, route.number)
        Hit(x0) ==
            LET x == Strip(Lower(x0))
            IN  \/ x = route_name
                \/ /\ ~IsAscii(x)
                   /\ \/ T2S(x) = route_name
                      \/ T2S(JP2T(x)) = route_name
    IN  Cardinality({k \in 1..Len(names) : Hit(names[k])})

\* the ids of data_v3[0]['routes'], in file order
RouteOrder == <<1, 2>>

\* a route id as the string a caller passes
IdString(route_id) == Str(route_id)

RECURSIVE Repeat(_, _)
Repeat(x, n) == IF n = 0 THEN <<>> ELSE <<x>> \o Repeat(x, n - 1)

RECURSIVE MatchesFrom(_, _)
MatchesFrom(k, route_name) ==
    IF k > Len(RouteOrder) THEN <<>>
    ELSE Repeat(RouteOrder[k], MatchCount(routes[RouteOrder[k]], route_name))
            \o MatchesFrom(k + 1, route_name)

\* (no query is taken for an id)
IsRouteIdNever(route_name) == FALSE

\* lines 72-74: the query is the id of a route
IsRouteId(route_name) ==
    \E k \in 1..Len(RouteOrder) : route_name = IdString(RouteOrder[k])

\* route_name_to_id: the id itself when the query is an id, the list of the
\* ids of the matching routes otherwise
route_name_to_id(route_name) ==
    IF IsRouteId(route_name)
    THEN <<RouteOrder[CHOOSE k \in 1..Len(RouteOrder) : route_name = IdString(RouteOrder[k])]>>
    ELSE MatchesFrom(1, Lower(route_name))

\* what a caller may pass as route: an id, an English name in another case, a
\* name in the simplified script, names of one route, a name of no route
RouteQueries == { <<"1">>, <<"2">>, <<"L">>, <<"Zs">>, <<"M">>, <<"m", " ", "2">>,
                  <<"n">>, <<"w">> }

(* ------------------------------------------------------------------ *)
(* get_train                                                           *)
(* ------------------------------------------------------------------ *)
\* train ids a caller may ask for
TrainIds == 1..4

\* _t2 = 2 ** 32 before the loop; every path to the comparison of line 393
\* assigns _t2 first, so the number itself is never read
Unset == <<"Unset">>

\* lines 344-363: the locals of a call that found its entry. i is the 0-based
\* index of the train in the list of its route, k the 1-based position of the
\* loop over route_stations. train = train_tt[route_id][i] is the list of the
\* index itself, not a copy; timetable is a list of its own.
GetTrainLocals(station, train_id, station_tt, train_tt) ==
    LET station_id == ResolveStation(station)
        entry == station_tt[station_id][train_id]
        train == train_tt[entry[1]][entry[2] + 1]
    IN  [station |-> station, station_id |-> station_id, train_id |-> train_id,
         route_id |-> entry[1], i |-> entry[2], dep |-> entry[3],
         timetable |-> [x \in 1..Len(train) |-> ConvertTime(train[x] % DAY)],
         output |-> <<>>, msg |-> <<>>, t1 |-> NoTime, t2raw |-> Unset, k |-> 1]

\* lines 344-349: the KeyError of station_tt[station_id][train_id]
NoEntry(station_id, train_id, station_tt) ==
    IF station_id \notin DOMAIN station_tt THEN TRUE
    ELSE train_id \notin DOMAIN station_tt[station_id]

\* (the missing train reported like the missing station)
NoTrainResultNone == RetNone

\* line 349: what the call returns on that KeyError
NoTrainResult == RetFalse

\* lines 367-377: the arrival of stop k. The first stop has none; for the
\* others one time is popped from timetable and one offset from the train of
\* the index; an IndexError of either pop goes on with the next stop.
ArriveStep(l, train) ==
    IF l.k = 1 THEN [pc |-> "dep", l |-> [l EXCEPT !.t1 = NoTime], train |-> train]
    ELSE IF l.timetable = <<>> THEN [pc |-> "arr", l |-> [l EXCEPT !.k = l.k + 1], train |-> train]
    ELSE LET l1 == [l EXCEPT !.t1 = Head(l.timetable), !.timetable = Tail(l.timetable)]
         IN  IF train = <<>> THEN [pc |-> "arr", l |-> [l1 EXCEPT !.k = l.k + 1], train |-> train]
             ELSE [pc |-> "dep", l |-> l1, train |-> Tail(train)]

\* lines 392-399: the status and the record of stop k; t2raw is _t2, <<>> for
\* None and <<offset>> otherwise
RecordStop(l, t2, t2raw, route_stations) ==
    LET x == route_stations[l.k]
        name == DisplayName(StationOf(x.id).name)
        dwelling == t2raw # NoTime /\ t2raw[1] % DAY = l.dep % DAY
    IN  [l EXCEPT !.msg = IF dwelling THEN <<name>> ELSE l.msg,
                  !.output = Append(l.output, <<name, l.t1, t2, x.id>>),
                  !.t2raw = t2raw,
                  !.k = l.k + 1]

\* lines 379-399: the departure of stop k. The last stop has none.
DepartStep(l, train, route_stations) ==
    IF l.k = Len(route_stations)
    THEN [pc |-> "arr", l |-> RecordStop(l, NoTime, NoTime, route_stations), train |-> train]
    ELSE IF l.timetable = <<>> THEN [pc |-> "arr", l |-> [l EXCEPT !.k = l.k + 1], train |-> train]
    ELSE LET l1 == [l EXCEPT !.timetable = Tail(l.timetable)]
         IN  IF train = <<>> THEN [pc |-> "arr", l |-> [l1 EXCEPT !.k = l.k + 1], train |-> train]
             ELSE [pc |-> "arr",
                   l |-> RecordStop(l1, Head(l.timetable), <<Head(train)>>, route_stations),
                   train |-> Tail(train)]

\* line 402: the triple returned
GetTrainResult(l) == <<ReplaceBars(routes[l.route_id].name), l.output, l.msg>>

\* the loop of lines 366-399 run to its end on a train list nobody else touches
RECURSIVE WalkAlone(_, _, _)
WalkAlone(pc, l, train) ==
    LET route_stations == routes[l.route_id].stations
    IN  IF l.k > Len(route_stations) THEN GetTrainResult(l)
        ELSE LET r == IF pc = "arr" THEN ArriveStep(l, train)
                      ELSE DepartStep(l, train, route_stations)
             IN  WalkAlone(r.pc, r.l, r.train)

\* get_train(data, station, train_id, station_tt, train_tt) as one function
get_train(station, train_id, station_tt, train_tt) ==
    LET station_id == ResolveStation(station)
    IN  IF station_id = None THEN RetNone
        ELSE IF NoEntry(station_id, train_id, station_tt) THEN NoTrainResult
        ELSE LET l == GetTrainLocals(station, train_id, station_tt, train_tt)
             IN  WalkAlone("arr", l, train_tt[l.route_id][l.i + 1])

\* the callers are handed the indices the build returned
QueriesOpen == bpc = "done"

\* a call whose station reference resolves to no station returns None
GetTrainNoStation(c) ==
    /\ QueriesOpen
    /\ cpc[c] = "idle"
    /\ \E station \in StationRefs, train_id \in TrainIds :
          /\ ResolveStation(station) = None
          /\ alone' = [alone EXCEPT ![c] = get_train(station, train_id,
                                                     built.station_tt, built.train_tt)]
          /\ cl' = [cl EXCEPT ![c] = [station |-> station, train_id |-> train_id]]
    /\ result' = [result EXCEPT ![c] = RetNone]
    /\ cpc' = [cpc EXCEPT ![c] = "done"]
    /\ UNCHANGED <<invars, rvars, dvars, tvars, svars, bvars>>

\* a call whose (station id, train id) pair is not in the index returns False
GetTrainNoTrain(c) ==
    /\ QueriesOpen
    /\ cpc[c] = "idle"
    /\ \E station \in StationRefs, train_id \in TrainIds :
          /\ ResolveStation(station) # None
          /\ NoEntry(ResolveStation(station), train_id, all_route_dep)
          /\ alone' = [alone EXCEPT ![c] = get_train(station, train_id,
                                                     built.station_tt, built.train_tt)]
          /\ cl' = [cl EXCEPT ![c] = [station |-> station, train_id |-> train_id]]
    /\ result' = [result EXCEPT ![c] = NoTrainResult]
    /\ cpc' = [cpc EXCEPT ![c] = "done"]
    /\ UNCHANGED <<invars, rvars, dvars, tvars, svars, bvars>>

\* a call that finds its entry starts the loop over the stops
GetTrainFound(c) ==
    /\ QueriesOpen
    /\ cpc[c] = "idle"
    /\ \E station \in StationRefs, train_id \in TrainIds :
          /\ ResolveStation(station) # None
          /\ ~NoEntry(ResolveStation(station), train_id, all_route_dep)
          /\ alone' = [alone EXCEPT ![c] = get_train(station, train_id,
                                                     built.station_tt, built.train_tt)]
          /\ cl' = [cl EXCEPT ![c] = GetTrainLocals(station, train_id,
                                                    all_route_dep, trains)]
    /\ cpc' = [cpc EXCEPT ![c] = "arr"]
    /\ UNCHANGED <<invars, rvars, dvars, tvars, svars, bvars, result>>

\* the train of the index a call reads and pops
TrainOf(l) == trains[l.route_id][l.i + 1]

\* trains with the train of call l replaced
WithTrain(l, train) ==
    Put(trains, l.route_id, [trains[l.route_id] EXCEPT ![l.i + 1] = train])

GetTrainArrive(c) ==
    /\ cpc[c] = "arr"
    /\ cl[c].k <= Len(routes[cl[c].route_id].stations)
    /\ LET r == ArriveStep(cl[c], TrainOf(cl[c]))
       IN  /\ cpc' = [cpc EXCEPT ![c] = r.pc]
           /\ cl' = [cl EXCEPT ![c] = r.l]
           /\ trains' = WithTrain(cl[c], r.train)
    /\ UNCHANGED <<invars, rvars, dvars, tvars, svars, bpc, ridx, loc, station_train_id, station_route_dep,
                   all_route_dep, built, result, alone>>

GetTrainDepart(c) ==
    /\ cpc[c] = "dep"
    /\ LET r == DepartStep(cl[c], TrainOf(cl[c]), routes[cl[c].route_id].stations)
       IN  /\ cpc' = [cpc EXCEPT ![c] = r.pc]
           /\ cl' = [cl EXCEPT ![c] = r.l]
           /\ trains' = WithTrain(cl[c], r.train)
    /\ UNCHANGED <<invars, rvars, dvars, tvars, svars, bpc, ridx, loc, station_train_id, station_route_dep,
                   all_route_dep, built, result, alone>>

GetTrainReturn(c) ==
    /\ cpc[c] = "arr"
    /\ cl[c].k > Len(routes[cl[c].route_id].stations)
    /\ result' = [result EXCEPT ![c] = GetTrainResult(cl[c])]
    /\ cpc' = [cpc EXCEPT ![c] = "done"]
    /\ UNCHANGED <<invars, rvars, dvars, tvars, svars, bvars, cl, alone>>

\* the data files of the query runs
QueryData ==
    /\ routes[1] \in {RouteThreeStops, RouteLoopStop}
    /\ routes[2] \in {RouteHalfDwell, RouteShort, RouteOnlyLoop, RouteTwoStops}
    /\ dep_data[1][2] = <<-1, 86400>>
    /\ dep_data[3][2] = <<57600>>
    /\ IGNORED_LINES = {}

InitQuery == Init /\ QueryData

NextQuery ==
    \/ NextBuild
    \/ \E c \in Callers :
          \/ GetTrainNoStation(c)
          \/ GetTrainNoTrain(c)
          \/ GetTrainFound(c)
          \/ GetTrainArrive(c)
          \/ GetTrainDepart(c)
          \/ GetTrainReturn(c)

SpecQuery == InitQuery /\ [][NextQuery]_vars

\* app.py, train_query: the answer of the HTTP layer to what get_train returned
train_query(train_info) ==
    IF train_info = RetNone THEN "station not found"
    ELSE IF train_info = RetFalse THEN "train not found"
    ELSE "schedule"

(* ------------------------------------------------------------------ *)
(* Properties of the queries                                           *)
(* ------------------------------------------------------------------ *)
\* C1 as claimed: once built, the per-station index and the per-route train
\* list stay as the build returned them, whatever calls are made. get_train
\* pops the offsets it reads from the train of the index itself.
C1_IndicesReadOnly ==
    bpc = "done" =>
        /\ all_route_dep = built.station_tt
        /\ trains = built.train_tt

\* C2 as claimed: a call that has returned, whatever ran between its steps,
\* returned what it returns alone on the indices as built.
C2_ConcurrentReadsSafe ==
    \A c \in Callers : cpc[c] = "done" => result[c] = alone[c]

\* C10: a call that has returned gave None exactly when its station reference
\* resolves to no station, False when the station resolves and the pair
\* (station id, train id) is not in the index, a triple otherwise; and the
\* HTTP layer answers the two failures with two different messages.
C10_FailuresDistinguished ==
    \A c \in Callers :
        cpc[c] = "done" =>
            LET station_id == ResolveReference(cl[c].station)
                missing == NoEntry(station_id, cl[c].train_id, built.station_tt)
            IN  /\ (result[c] = RetNone) <=> (station_id = None)
                /\ (station_id # None /\ missing) => result[c] = RetFalse
                /\ (station_id # None /\ ~missing) => Len(result[c]) = 3
                /\ (station_id = None) <=> (train_query(result[c]) = "station not found")
                /\ (station_id # None /\ missing) <=> (train_query(result[c]) = "train not found")

\* one call answered None, one answered False for a station that resolves and
\* has no entry in the index at all, both next to a train the index holds
C10_Witness ==
    \E c, d \in Callers :
        /\ cpc[c] = "done" /\ cpc[d] = "done"
        /\ result[c] = RetNone
        /\ result[d] = RetFalse
        /\ ResolveReference(cl[d].station) \notin DOMAIN all_route_dep
        /\ all_route_dep # EmptyDict

(* ------------------------------------------------------------------ *)
(* random_train and route_random_train                                 *)
(* ------------------------------------------------------------------ *)
\* train = [-1] before the first pick
NoRef == <<>>

\* the list a picked train refers to: a train of the index itself
TrainAt(tref) == IF tref = NoRef THEN <<-1>> ELSE trains[tref[1]][tref[2]]

\* the negation of the loop condition of lines 447-449 and 564-566
Fits(train, departure_time) ==
    ~ /\ \/ departure_time < MinOf(train)
         \/ departure_time > MaxOf(train)
      /\ \/ departure_time + DAY < MinOf(train)
         \/ departure_time + DAY > MaxOf(train)

\* the keys of a dict whose keys were inserted in the order of the departure file
KeysOf(d) ==
    SelectSeq([k \in 1..Len(dep_data) |-> dep_data[k][1]], LAMBDA x : x \in DOMAIN d)

\* lines 439-444 and 556-561: the locals before the loop
SelLocals(op, route, arg, all_trains) ==
    [op |-> op, route |-> route, arg |-> arg, departure_time |-> arg % DAY,
     all_trains |-> all_trains, tref |-> NoRef, route_data |-> 0,
     tries |-> TRIES, picks |-> 0, skips |-> 0,
     picked |-> <<>>, fallback |-> FALSE]

\* the target times a caller may pass
SelTimes == {115200, -36400}

\* the route names a caller of route_random_train may pass
SelRoutes == { <<"L">>, <<"m">>, <<"N">>, <<"w">> }

\* random_train, lines 556-561
RandomTrainStart ==
    /\ QueriesOpen
    /\ spc = "idle"
    /\ \E arg \in SelTimes :
          sel' = SelLocals("random_train", <<>>, arg, KeysOf(trains))
    /\ spc' = "loop"
    /\ UNCHANGED <<invars, rvars, dvars, tvars, bvars, qvars, sresult>>

\* route_random_train, lines 421-423: no route of that name, None is returned
RouteRandomTrainNoRoute ==
    /\ QueriesOpen
    /\ spc = "idle"
    /\ \E route \in SelRoutes, arg \in SelTimes :
          /\ route_name_to_id(route) = <<>>
          /\ sel' = SelLocals("route_random_train", route, arg, <<>>)
    /\ sresult' = RetNone
    /\ spc' = "done"
    /\ UNCHANGED <<invars, rvars, dvars, tvars, bvars, qvars>>

\* route_random_train, lines 421-444
RouteRandomTrainStart ==
    /\ QueriesOpen
    /\ spc = "idle"
    /\ \E route \in SelRoutes, arg \in SelTimes :
          /\ route_name_to_id(route) # <<>>
          /\ sel' = SelLocals("route_random_train", route, arg,
                              SelectSeq(route_name_to_id(route),
                                        LAMBDA x : x \in DOMAIN trains))
    /\ spc' = "loop"
    /\ UNCHANGED <<invars, rvars, dvars, tvars, bvars, qvars, sresult>>

\* line 450 and line 567: random.choice of an empty list raises IndexError
SelChoiceFails ==
    /\ spc = "loop"
    /\ sel.all_trains = <<>>
    /\ sresult' = <<"IndexError">>
    /\ spc' = "done"
    /\ UNCHANGED <<invars, rvars, dvars, tvars, bvars, qvars, sel>>

\* lines 450-452 and 567-569: the picked route has no train; the loop goes on
\* with the budget as it was
SelSkipEmpty ==
    /\ spc = "loop"
    /\ sel.skips < MaxSkips
    /\ \E r \in 1..Len(sel.all_trains) :
          trains[sel.all_trains[r]] = <<>>
    /\ sel' = [sel EXCEPT !.picks = sel.picks + 1, !.skips = sel.skips + 1]
    /\ UNCHANGED <<invars, rvars, dvars, tvars, bvars, qvars, spc, sresult>>

\* (a hidden route is treated as any other)
SkipsHiddenNever(op, route_id) == FALSE

\* lines 571-573: random_train goes on when the picked route is hidden;
\* route_random_train has no such test
SkipsHidden(op, route_id) == op = "random_train" /\ routes[route_id].hidden = TRUE

\* lines 571-573, random_train only: the picked route is hidden; the loop goes
\* on with the budget as it was
SelSkipHidden ==
    /\ spc = "loop"
    /\ sel.skips < MaxSkips
    /\ \E r \in 1..Len(sel.all_trains) :
          LET route_id == sel.all_trains[r]
          IN  /\ trains[route_id] # <<>>
              /\ SkipsHidden(sel.op, route_id)
              /\ sel' = [sel EXCEPT !.route_data = route_id,
                                    !.picks = sel.picks + 1,
                                    !.skips = sel.skips + 1]
    /\ UNCHANGED <<invars, rvars, dvars, tvars, bvars, qvars, spc, sresult>>

\* where the loop stands after a pick of a train: the break of tries == 0
\* leaves it with the train just picked; otherwise the loop condition decides,
\* and min() of a train without offsets raises ValueError
AfterPick(tries, train, departure_time) ==
    IF tries = 0 THEN "post"
    ELSE IF train = <<>> THEN "ValueError"
    ELSE IF Fits(train, departure_time) THEN "post"
    ELSE "loop"

\* lines 454-461 and 575-578: a train of the picked route is picked and one
\* try is spent
SelPickTrain ==
    /\ spc = "loop"
    /\ \E r \in 1..Len(sel.all_trains) :
          LET route_id == sel.all_trains[r]
          IN  /\ trains[route_id] # <<>>
              /\ ~SkipsHidden(sel.op, route_id)
              /\ \E t \in 1..Len(trains[route_id]) :
                    LET train == trains[route_id][t]
                        after == AfterPick(sel.tries - 1, train, sel.departure_time)
                    IN  /\ sel' = [sel EXCEPT !.tref = <<route_id, t>>,
                                              !.route_data = route_id,
                                              !.tries = sel.tries - 1,
                                              !.picks = sel.picks + 1,
                                              !.picked = train]
                        /\ spc' = IF after = "ValueError" THEN "done" ELSE after
                        /\ sresult' = IF after = "ValueError" THEN <<"ValueError">>
                                      ELSE sresult
    /\ UNCHANGED <<invars, rvars, dvars, tvars, bvars, qvars>>

\* a <= x <= b for the target time or the target time a day later
Between(a, departure_time, b) ==
    \/ a <= departure_time /\ departure_time <= b
    \/ a <= departure_time + DAY /\ departure_time + DAY <= b

\* a < x < b for the target time or the target time a day later
StrictlyBetween(a, departure_time, b) ==
    \/ a < departure_time /\ departure_time < b
    \/ a < departure_time + DAY /\ departure_time + DAY < b

\* lines 487-524 and 592-629: the loop over route_stations from stop k on.
\* w holds timetable, the train of the index, _t2 (<<>> for None), output and
\* msg. Nothing catches the IndexError of a pop; what was popped before it
\* stays popped.
RECURSIVE SelWalk(_, _, _, _)
SelWalk(k, w, route_stations, departure_time) ==
    IF k > Len(route_stations) THEN [w EXCEPT !.raised = FALSE]
    ELSE IF k > 1 /\ (w.timetable = <<>> \/ w.train = <<>>) THEN [w EXCEPT !.raised = TRUE]
    ELSE
    LET x == route_stations[k]
        name == DisplayName(StationOf(x.id).name)
        t1 == IF k = 1 THEN NoTime ELSE Head(w.timetable)
        t1raw == IF k = 1 THEN NoTime ELSE <<Head(w.train)>>
        w1 == IF k = 1 THEN w
              ELSE [w EXCEPT !.timetable = Tail(w.timetable), !.train = Tail(w.train)]
        running == /\ t1raw # NoTime
                   /\ w.t2raw # NoTime
                   /\ Between(w.t2raw[1], departure_time, t1raw[1])
        msg1 == IF running
                THEN <<DisplayName(StationOf(route_stations[k - 1].id).name), name>>
                ELSE w.msg
        last == k = Len(route_stations)
    IN  IF ~last /\ (w1.timetable = <<>> \/ w1.train = <<>>)
        THEN [w1 EXCEPT !.msg = msg1, !.raised = TRUE]
        ELSE
        LET t2 == IF last THEN NoTime ELSE Head(w1.timetable)
            t2raw == IF last THEN NoTime ELSE <<Head(w1.train)>>
            w2 == IF last THEN w1
                  ELSE [w1 EXCEPT !.timetable = Tail(w1.timetable),
                                  !.train = Tail(w1.train)]
            dwelling == /\ t1raw # NoTime
                        /\ t2raw # NoTime
                        /\ StrictlyBetween(t1raw[1], departure_time, t2raw[1])
        IN  SelWalk(k + 1,
                    [w2 EXCEPT !.msg = IF dwelling THEN <<name>> ELSE msg1,
                               !.t2raw = t2raw,
                               !.output = Append(w2.output, <<name, t1, t2, x.id>>)],
                    route_stations, departure_time)

\* lines 476-527 and 581-632 on the train the loop ended with
SelWalkOf(route_id, train, departure_time) ==
    SelWalk(1,
            [timetable |-> [x \in 1..Len(train) |-> ConvertTime(train[x] % DAY)],
             train |-> train, t2raw |-> Unset, output |-> <<>>, msg |-> <<>>,
             raised |-> FALSE],
            routes[route_id].stations, departure_time)

\* lines 464-527 and 581-632: what follows the sampling loop. The fallback of
\* route_random_train is entered when train is still [-1]; its loop condition
\* takes len() of the 0 in route = [0, 0], a TypeError. Otherwise the stops are
\* walked, which pops the offsets off the train of the index.
SelFinish ==
    /\ spc = "post"
    /\ IF sel.op = "route_random_train" /\ TrainAt(sel.tref) = <<-1>>
       THEN /\ sel' = [sel EXCEPT !.fallback = TRUE, !.tries = FALLBACK_TRIES]
            /\ sresult' = <<"TypeError">>
            /\ trains' = trains
       ELSE LET w == SelWalkOf(sel.route_data, TrainAt(sel.tref), sel.departure_time)
            IN  /\ sel' = sel
                /\ sresult' = IF w.raised THEN <<"IndexError">>
                              ELSE <<ReplaceBars(routes[sel.route_data].name),
                                     w.output, w.msg>>
                /\ trains' = Put(trains, sel.tref[1],
                                 [trains[sel.tref[1]] EXCEPT ![sel.tref[2]] = w.train])
    /\ spc' = "done"
    /\ UNCHANGED <<invars, rvars, dvars, tvars, qvars, bpc, ridx, loc, station_train_id,
                   station_route_dep, all_route_dep, built>>

\* the data files of the selector runs
SelData ==
    /\ routes[1] \in {RouteThreeStops, RouteLoopStop}
    /\ routes[2] \in {RouteShort, RouteTwoStops, RouteOnlyLoop, RouteNoDurations}
    /\ dep_data[1][2] = <<-1, 86400>>
    /\ dep_data[3][2] = <<57600>>
    /\ IGNORED_LINES = {}

InitSel == Init /\ SelData

NextSel ==
    \/ NextBuild
    \/ RandomTrainStart
    \/ RouteRandomTrainNoRoute
    \/ RouteRandomTrainStart
    \/ SelChoiceFails
    \/ SelSkipEmpty
    \/ SelSkipHidden
    \/ SelPickTrain
    \/ SelFinish

SpecSel == InitSel /\ [][NextSel]_vars

(* ------------------------------------------------------------------ *)
(* Properties of the selectors                                         *)
(* ------------------------------------------------------------------ *)
\* C7 as claimed: the sampling loop of random_train and route_random_train
\* makes at most 3000 random picks of a route. A pick of a route without
\* trains, and in random_train a pick of a hidden route, goes on before
\* tries is decremented, so such picks are not counted.
C7_PicksWithinBudget ==
    spc # "idle" => sel.picks <= TRIES

\* the call returned a triple
SelReturned == spc = "done" /\ Len(sresult) = 3

\* C8 as claimed: a train the sampling loop ended with, when the call returns
\* it, spans the target time or the target time a day later. The break of
\* tries == 0 ends the loop with the train picked last, fitting or not.
C8_PrimaryTrainFits ==
    (SelReturned /\ ~sel.fallback) => Fits(sel.picked, sel.departure_time)

\* C9 as claimed: when route_random_train has spent its 3000 tries on trains
\* that do not span the target time, the fallback loop is entered, makes at
\* most 1000 picks, and the call returns a triple. The fallback is guarded by
\* train == [-1], which no pick leaves in place.
C9_FallbackOnExhaustion ==
    ( /\ spc = "done"
      /\ sel.op = "route_random_train"
      /\ sel.tries = 0
      /\ ~Fits(sel.picked, sel.departure_time) )
        => /\ sel.fallback
           /\ Len(sresult) = 3

(* ------------------------------------------------------------------ *)
(* get_text_timetable                                                  *)
(* ------------------------------------------------------------------ *)
\* the characters of route names, of station display names and of the two
\* circular labels in the order of their code points
CodePoints == <<" ", "/", "B", "L", "M", "N", "Q", "X", "]", "c", "e", "o", "|",
                "Zj", "Zs", "Zt", "Zshi", "Zni", "Zzhen", "Zshun">>

Ord(c) == CHOOSE k \in 1..Len(CodePoints) : CodePoints[k] = c

\* a < b for two Python strings
RECURSIVE StrLess(_, _)
StrLess(a, b) ==
    IF a = <<>> \/ b = <<>> THEN a = <<>> /\ b # <<>>
    ELSE IF Head(a) # Head(b) THEN Ord(Head(a)) < Ord(Head(b))
    ELSE StrLess(Tail(a), Tail(b))

\* line 675: list.sort(key=name) of the items <<route_id, x>> is stable; an
\* item goes behind the items whose name is not greater
RECURSIVE InsertByName(_, _)
InsertByName(s, x) ==
    IF s = <<>> THEN <<x>>
    ELSE IF StrLess(routes[x[1]].name, routes[Head(s)[1]].name) THEN <<x>> \o s
    ELSE <<Head(s)>> \o InsertByName(Tail(s), x)

RECURSIVE SortByName(_)
SortByName(s) ==
    IF s = <<>> THEN <<>>
    ELSE InsertByName(SortByName(SubSeq(s, 1, Len(s) - 1)), s[Len(s)])

\* line 679: list.sort() of tuples of integers
RECURSIVE InsertTuple(_, _)
InsertTuple(s, x) ==
    IF s = <<>> THEN <<x>>
    ELSE IF TupleLess(x, Head(s)) THEN <<x>> \o s
    ELSE <<Head(s)>> \o InsertTuple(Tail(s), x)

RECURSIVE SortFlat(_)
SortFlat(s) ==
    IF s = <<>> THEN <<>>
    ELSE InsertTuple(SortFlat(SubSeq(s, 1, Len(s) - 1)), s[Len(s)])

\* the train ids of one station in the order the build inserted them
RECURSIVE TrainIdsFrom(_, _)
TrainIdsFrom(tt, k) ==
    IF k \notin DOMAIN tt THEN <<>> ELSE <<k>> \o TrainIdsFrom(tt, k + 1)

\* lines 666-671: dep_dict of one station as a list of <<route_id, x>> in the
\* order the routes are met; every departure is appended at +0 and at +86400
RECURSIVE DepDict(_, _, _)
DepDict(tt, ids, acc) ==
    IF ids = <<>> THEN acc
    ELSE LET train_id == Head(ids)
             route_id == tt[train_id][1]
             i == tt[train_id][2]
             dep == tt[train_id][3]
             two == << <<dep, train_id, i>>, <<dep + DAY, train_id, i>> >>
             at == {k \in 1..Len(acc) : acc[k][1] = route_id}
         IN  DepDict(tt, Tail(ids),
                     IF at = {} THEN Append(acc, <<route_id, two>>)
                     ELSE [k \in 1..Len(acc) |->
                             IF k \in at THEN <<route_id, acc[k][2] \o two>> ELSE acc[k]])

\* lines 683-699: the departures of one route that are shown, from entry k of
\* the sorted list on. The line is added to the output when count reaches 3,
\* that is with the second departure after departure_time, and only then.
RECURSIVE ScanDepartures(_, _, _, _)
ScanDepartures(x, k, departure_time, shown) ==
    IF k > Len(x) THEN [emitted |-> FALSE, shown |-> shown]
    ELSE IF x[k][1] > departure_time
         THEN IF Len(shown) + 1 = 2
              THEN [emitted |-> TRUE, shown |-> Append(shown, <<x[k][1], x[k][2]>>)]
              ELSE ScanDepartures(x, k + 1, departure_time,
                                  Append(shown, <<x[k][1], x[k][2]>>))
         ELSE ScanDepartures(x, k + 1, departure_time, shown)

\* lines 674-699: one record per route of the station, in the order of the
\* route names: the departures shown and whether the line went to the output
TextLines(station_id, departure_time, station_tt) ==
    LET tt == station_tt[station_id]
        k == SortByName(DepDict(tt, TrainIdsFrom(tt, 1), <<>>))
    IN  [n \in 1..Len(k) |->
            LET scan == ScanDepartures(SortFlat(k[n][2]), 1, departure_time, <<>>)
            IN  [route_id |-> k[n][1], emitted |-> scan.emitted, shown |-> scan.shown]]

\* line 693: f'{dep_time}({train_id}), '
RECURSIVE ShownText(_)
ShownText(shown) ==
    IF shown = <<>> THEN <<>>
    ELSE ConvertTime(Head(shown)[1] % DAY) \o <<"(">> \o Str(Head(shown)[2])
            \o <<")", ",", " ">> \o ShownText(Tail(shown))

\* lines 684-698: template[:-2] + '\n'
LineText(line) ==
    LET template == ReplaceBars(routes[line.route_id].name) \o <<":", " ">>
                        \o ShownText(line.shown)
    IN  SubSeq(template, 1, Len(template) - 2) \o <<"\n">>

RECURSIVE OutputText(_)
OutputText(lines) ==
    IF lines = <<>> THEN <<>>
    ELSE (IF Head(lines).emitted THEN LineText(Head(lines)) ELSE <<>>)
            \o OutputText(Tail(lines))

\* int('0x' + short_id, 16)
RECURSIVE HexValue(_)
HexValue(code) ==
    IF code = <<>> THEN 0
    ELSE 16 * HexValue(SubSeq(code, 1, Len(code) - 1))
            + (CHOOSE k \in 1..Len(HexDigits) : HexDigits[k] = code[Len(code)]) - 1

\* lines 702-710: the header and the output, through 'jp2t' and then 't2s'.
\* "Zn" is the glyph of the header, which no converter changes.
TextOf(station_id, lines) ==
    LET station_data == StationOf(station_id)
    IN  T2S(JP2T(DisplayName(station_data.name)
                    \o <<"Zn", " ", "-", " ", "I", "D", ":", " ">>
                    \o Str(HexValue(station_data.station)) \o <<"\n">>
                    \o OutputText(lines)))

\* get_text_timetable(data, station, departure_time, station_tt) as one
\* function: None for no station, the KeyError of line 666 for a station the
\* index does not hold, the text otherwise
get_text_timetable(station, departure_time, station_tt) ==
    LET station_id == ResolveStation(station)
    IN  IF station_id = None THEN RetNone
        ELSE IF station_id \notin DOMAIN station_tt THEN <<"KeyError">>
        ELSE TextOf(station_id, TextLines(station_id, departure_time, station_tt))

\* the times a caller may pass as departure_time: two seconds of the day, the
\* first of them a day later, and an epoch timestamp of 2023 as app.py passes
TextTimes == {28700, 86390, 115100, 1700028700}

\* lines 649-660: no station of that reference, None is returned
TextNoStation ==
    /\ QueriesOpen
    /\ tpc = "idle"
    /\ \E station \in StationRefs, departure_time \in TextTimes :
          /\ ResolveStation(station) = None
          /\ tl' = [station |-> station, departure_time |-> departure_time,
                    station_id |-> None, lines |-> <<>>]
    /\ tresult' = RetNone
    /\ tpc' = "done"
    /\ UNCHANGED <<invars, rvars, dvars, bvars, qvars, svars>>

\* line 666: the station is not a key of the index, KeyError is raised
TextNoEntry ==
    /\ QueriesOpen
    /\ tpc = "idle"
    /\ \E station \in StationRefs, departure_time \in TextTimes :
          /\ ResolveStation(station) # None
          /\ ResolveStation(station) \notin DOMAIN all_route_dep
          /\ tl' = [station |-> station, departure_time |-> departure_time,
                    station_id |-> ResolveStation(station), lines |-> <<>>]
    /\ tresult' = <<"KeyError">>
    /\ tpc' = "done"
    /\ UNCHANGED <<invars, rvars, dvars, bvars, qvars, svars>>

\* lines 662-710: the text of a station the index holds
TextReturn ==
    /\ QueriesOpen
    /\ tpc = "idle"
    /\ \E station \in StationRefs, departure_time \in TextTimes :
          LET station_id == ResolveStation(station)
          IN  /\ station_id # None
              /\ station_id \in DOMAIN all_route_dep
              /\ LET lines == TextLines(station_id, departure_time, all_route_dep)
                 IN  /\ tl' = [station |-> station, departure_time |-> departure_time,
                               station_id |-> station_id, lines |-> lines]
                     /\ tresult' = TextOf(station_id, lines)
    /\ tpc' = "done"
    /\ UNCHANGED <<invars, rvars, dvars, bvars, qvars, svars>>

\* the data files of the text runs
TextData ==
    /\ routes[1] \in {RouteThreeStops, RouteLoopStop}
    /\ routes[2] \in {RouteHalfDwell, RouteShort, RouteOnlyLoop, RouteTwoStops}
    /\ dep_data[1][2] = <<-1, 86400>>
    /\ dep_data[3][2] \in { <<57600>>, <<172800, 3600>> }
    /\ IGNORED_LINES = {}

InitText == Init /\ TextData

NextText ==
    \/ NextBuild
    \/ TextNoStation
    \/ TextNoEntry
    \/ TextReturn

SpecText == InitText /\ [][NextText]_vars

(* ------------------------------------------------------------------ *)
(* Properties of get_text_timetable                                    *)
(* ------------------------------------------------------------------ *)
\* the departures <<second, train id>> of a route at a station, each at +0 and
\* at +86400, that are strictly after now
DeparturesAfter(station_id, route_id, now) ==
    LET tt == all_route_dep[station_id]
    IN  {e \in {<<tt[t][3] + d, t>> : t \in {u \in DOMAIN tt : tt[u][1] = route_id},
                                       d \in {0, DAY}} : e[1] > now}

\* the first min(2, k) of k departures, by second and then by train id
FirstTwo(after) ==
    CHOOSE f \in SUBSET after :
        /\ Cardinality(f) = Min(2, Cardinality(after))
        /\ \A a \in f, b \in after \ f :
              a[1] < b[1] \/ (a[1] = b[1] /\ a[2] < b[2])

\* C11 as claimed: the text has, for every route with a departure of the
\* station after now, one line with the first min(2, k) of its k departures
\* after now. A line goes to the output only with its second departure, so a
\* route with one departure after now has no line.
C11_FirstTwoAfterNow ==
    (tpc = "done" /\ tl.station_id \in DOMAIN all_route_dep) =>
        \A route_id \in {all_route_dep[tl.station_id][t][1] :
                            t \in DOMAIN all_route_dep[tl.station_id]} :
            LET after == DeparturesAfter(tl.station_id, route_id, tl.departure_time)
                mine == {n \in 1..Len(tl.lines) :
                            tl.lines[n].route_id = route_id /\ tl.lines[n].emitted}
            IN  after # {} =>
                    /\ Cardinality(mine) = 1
                    /\ \A n \in mine : Range(tl.lines[n].shown) = FirstTwo(after)

\* C12 as claimed: the text for a time is the text for that time modulo
\* 86400. get_text_timetable compares the departures with departure_time as
\* it was passed.
C12_NowModuloDay ==
    tpc = "done" =>
        tresult = get_text_timetable(tl.station, tl.departure_time % DAY, all_route_dep)

(* ------------------------------------------------------------------ *)
(* Properties of the validation of routes                              *)
(* ------------------------------------------------------------------ *)
\* a route without durations, or with fewer durations than legs
FailsValidation(route) ==
    \/ route.durations = <<>>
    \/ Len(route.durations) < Len(route.stations) - 1

\* C13 as claimed: after the build a route that fails validation has left
\* nothing in the returned indices, as if the input did not hold it: no entry
\* of the per-station index names it and the per-route train list has no key
\* for it. A route with too few durations is given its empty train list
\* before the shortfall is found.
C13_InvalidRouteLeavesNothing ==
    bpc = "done" =>
        \A route_id \in RouteIds :
            FailsValidation(routes[route_id]) =>
                /\ route_id \notin DOMAIN built.train_tt
                /\ \A station_id \in DOMAIN built.station_tt :
                      \A train_id \in DOMAIN built.station_tt[station_id] :
                          built.station_tt[station_id][train_id][1] # route_id

(* ------------------------------------------------------------------ *)
(* The name resolvers on their own                                     *)
(* ------------------------------------------------------------------ *)
\* a route whose name is the id of the other route
RouteNamedTwo ==
    [name |-> <<"2">>, number |-> <<"1">>, hidden |-> FALSE,
     stations |-> <<Stop("A", 0), Stop("B", 0)>>,
     durations |-> <<1000>>]

\* a station id as the string a caller passes
StationIdString(station_id) == <<station_id>>

\* what a caller may pass to station_name_to_id: the ids of the stations,
\* names in two scripts, a name of no station
StationQueries ==
    {StationIdString(station_id) : station_id \in StationIds}
        \cup { <<"c", "c">>, <<"Zs">>, <<"z">> }

ResolveRouteName ==
    /\ \E route_name \in RouteQueries :
          resolved' = [op |-> "route_name_to_id", query |-> route_name,
                       result |-> route_name_to_id(route_name)]
    /\ UNCHANGED <<invars, bvars, qvars, svars, tvars, dvars>>

ResolveStationName ==
    /\ \E sta \in StationQueries :
          resolved' = [op |-> "station_name_to_id", query |-> sta,
                       result |-> station_name_to_id(sta)]
    /\ UNCHANGED <<invars, bvars, qvars, svars, tvars, dvars>>

\* every pair of routes the resolvers are run on
InitResolve ==
    /\ routes \in [RouteIds -> RouteShapes \cup {RouteNamedTwo}]
    /\ dep_data = << <<1, <<0>>>>, <<3, <<0>>>>, <<2, <<0>>>> >>
    /\ IGNORED_LINES = {}
    /\ InitBuilder
    /\ InitCallers
    /\ InitSelector
    /\ InitTextCall
    /\ InitResolver
    /\ InitDirections

NextResolve ==
    \/ ResolveRouteName
    \/ ResolveStationName

SpecResolve == InitResolve /\ [][NextResolve]_vars

\* C14: route_name_to_id of the id of a route of the data is the list of that
\* one id, whatever names and numbers the routes have
C14_RouteIdResolvesToItself ==
    \A route_id \in RouteIds :
        ( /\ resolved # NoCall
          /\ resolved.op = "route_name_to_id"
          /\ resolved.query = IdString(route_id) )
            => resolved.result = <<route_id>>

\* the id of route 2 was resolved while route 1 carries it as its name
C14_Witness ==
    /\ resolved # NoCall
    /\ resolved.op = "route_name_to_id"
    /\ resolved.query = IdString(2)
    /\ routes[1].name = IdString(2)
    /\ resolved.result = <<2>>

\* C15 as claimed: station_name_to_id of the id of a station of the data is
\* that id. The function compares the query with the names of the stations
\* only; an id resolves as any other string does.
C15_StationIdResolvesToItself ==
    \A station_id \in StationIds :
        ( /\ resolved # NoCall
          /\ resolved.op = "station_name_to_id"
          /\ resolved.query = StationIdString(station_id) )
            => resolved.result = station_id

\* C16 as claimed: no route id occurs twice in the result of
\* route_name_to_id. Every candidate name of a route that matches appends the
\* id once more, and the full name and its first segment are the same string
\* for a name without '|'.
C16_ResultHasNoDuplicates ==
    (resolved # NoCall /\ resolved.op = "route_name_to_id") =>
        \A i, j \in 1..Len(resolved.result) :
            i # j => resolved.result[i] # resolved.result[j]

(* ------------------------------------------------------------------ *)
(* get_sta_directions                                                  *)
(* ------------------------------------------------------------------ *)
\* line 913
MAX_DIST == 30

Abs(n) == IF n < 0 THEN 0 - n ELSE n

\* lines 925-929: the Manhattan distance of two coordinates
Dist(tuple1, tuple2) ==
    Abs(tuple1[1] - tuple2[1]) + Abs(tuple1[2] - tuple2[2]) + Abs(tuple1[3] - tuple2[3])

\* min_dist(tuple1, tuples)[0]
min_dist(tuple1, tuples) ==
    MinOf([k \in 1..Len(tuples) |-> Dist(tuple1, tuples[k])])

\* a stop of a route with the coordinate of its platform
PlatStop(id, x, y, z) == [id |-> id, x |-> x, y |-> y, z |-> z]

\* (sta['x'], sta['y'], sta['z'])
Plat(sta) == <<sta.x, sta.y, sta.z>>

Plats(stops) == [k \in 1..Len(stops) |-> Plat(stops[k])]

\* the two circular labels
Clockwise == <<"Zshun", "Zshi", "Zzhen">>
Anticlockwise == <<"Zni", "Zshi", "Zzhen">>

\* routes of data['routes'] as get_sta_directions reads them
DirEast ==
    [name |-> NameL, hidden |-> FALSE, type |-> "train_normal", circularState |-> "NONE",
     stations |-> <<PlatStop("A", 0, 0, 0), PlatStop("B", 100, 0, 0),
                    PlatStop("C", 900, 0, 0), PlatStop("D", 1000, 0, 0)>>]

\* another platform; only its second stop after A is near a stop of DirEast
DirEastExpress ==
    [name |-> NameM, hidden |-> FALSE, type |-> "train_high_speed", circularState |-> "NONE",
     stations |-> <<PlatStop("A", 0, 0, 50), PlatStop("E", 300, 0, 0),
                    PlatStop("C", 900, 0, 20), PlatStop("D", 1000, 0, 20)>>]

\* another platform; its first stop after A is near the one of DirEast
DirEastLocal ==
    [name |-> NameN, hidden |-> FALSE, type |-> "train_normal", circularState |-> "NONE",
     stations |-> <<PlatStop("A", 0, 10, 0), PlatStop("B", 100, 10, 0),
                    PlatStop("C", 900, 10, 0)>>]

\* the platform of DirEast, one stop further on, elsewhere
DirBranch ==
    [name |-> NameQ, hidden |-> FALSE, type |-> "train_normal", circularState |-> "NONE",
     stations |-> <<PlatStop("A", 0, 0, 0), PlatStop("E", 0, 500, 0)>>]

\* the name of DirEast, the other way
DirWest ==
    [name |-> NameL, hidden |-> FALSE, type |-> "train_normal", circularState |-> "NONE",
     stations |-> <<PlatStop("A", 5, 5, 5), PlatStop("C", -500, 0, 0),
                    PlatStop("E", -900, 0, 0)>>]

DirTerminates ==
    [name |-> NameM, hidden |-> FALSE, type |-> "train_normal", circularState |-> "NONE",
     stations |-> <<PlatStop("B", 100, 0, 0), PlatStop("A", 0, 0, 0)>>]

DirHidden ==
    [name |-> NameQ, hidden |-> TRUE, type |-> "train_normal", circularState |-> "NONE",
     stations |-> <<PlatStop("A", 0, 0, 0), PlatStop("B", 100, 0, 0),
                    PlatStop("D", 1000, 0, 0)>>]

DirBoat ==
    [name |-> NameN, hidden |-> FALSE, type |-> "boat_normal", circularState |-> "NONE",
     stations |-> <<PlatStop("A", 0, 0, 0), PlatStop("B", 100, 0, 0),
                    PlatStop("C", 900, 0, 0)>>]

DirLoopClockwise ==
    [name |-> NameQ, hidden |-> FALSE, type |-> "train_normal", circularState |-> "CLOCKWISE",
     stations |-> <<PlatStop("A", 0, 0, 0), PlatStop("B", 100, 0, 0),
                    PlatStop("C", 900, 0, 0), PlatStop("A", 0, 0, 0)>>]

DirLoopAnticlockwise ==
    [name |-> NameQ, hidden |-> FALSE, type |-> "train_normal",
     circularState |-> "ANTICLOCKWISE",
     stations |-> <<PlatStop("A", 0, 0, 50), PlatStop("C", 900, 0, 50),
                    PlatStop("B", 100, 0, 50), PlatStop("A", 0, 0, 50)>>]

\* out and back to A, not marked circular
DirOutAndBack ==
    [name |-> NameM, hidden |-> FALSE, type |-> "train_normal", circularState |-> "NONE",
     stations |-> <<PlatStop("A", 0, 0, 80), PlatStop("B", 100, 0, 80),
                    PlatStop("A", 0, 0, 80)>>]

\* another platform; its first stop after A is the third stop of DirEast
DirEastSkip ==
    [name |-> NameQ, hidden |-> FALSE, type |-> "train_normal", circularState |-> "NONE",
     stations |-> <<PlatStop("A", 0, 0, 30), PlatStop("C", 900, 0, 10),
                    PlatStop("D", 1000, 0, 10)>>]

DirShapes == {DirEast, DirEastExpress, DirEastLocal, DirBranch, DirWest, DirTerminates,
              DirHidden, DirBoat, DirLoopClockwise, DirLoopAnticlockwise, DirOutAndBack,
              DirEastSkip}

\* the keys of data['routes']
DirRouteIds == {1, 2, 3}

\* [x['id'] for x in route_data['stations']]
StationIdsOf(route_data) ==
    [k \in 1..Len(route_data.stations) |-> route_data.stations[k].id]

\* list.index(x): the first position of x
IndexOf(s, x) == CHOOSE k \in 1..Len(s) : s[k] = x /\ \A j \in 1..(k - 1) : s[j] # x

\* the members of a set of integers in ascending order
SortIds(S) ==
    [k \in 1..Cardinality(S) |-> CHOOSE x \in S : Cardinality({y \in S : y < x}) = k - 1]

\* data['station_routes'][station_id]: the routes that stop at the station
StationRoutes(station_id) ==
    SortIds({route_id \in DirRouteIds : station_id \in Range(StationIdsOf(routes[route_id]))})

\* a dict of lists with its keys in insertion order
EmptyGraph == [keys |-> <<>>, adj |-> EmptyDict]

\* if k not in graph: graph[k] = []
AddKey(graph, k) ==
    IF k \in Range(graph.keys) THEN graph
    ELSE [keys |-> Append(graph.keys, k), adj |-> Put(graph.adj, k, <<>>)]

\* graph[a].append(b)
AddEdge(graph, a, b) == [graph EXCEPT !.adj[a] = Append(@, b)]

\* graph.get(node, [])
Neighbors(graph, node) == IF node \in DOMAIN graph.adj THEN graph.adj[node] ELSE <<>>

\* lines 986, 992: the outer loop goes on with the route
Considered(route_data, station_id) ==
    /\ route_data.hidden # TRUE
    /\ IndexOf(StationIdsOf(route_data), station_id) # Len(route_data.stations)

\* lines 1008-1013
Compatible(type1, type2) ==
    \/ type1 = type2
    \/ ("train_normal" \in {type1, type2} /\ "train_high_speed" \in {type1, type2})

\* (the platforms of two routes are never taken for one)
SamePlatformNever(plat1, plat2) == FALSE

\* line 1032
SamePlatform(plat1, plat2) == plat1 = plat2

\* lines 1037-1053: the coordinates after the station that are compared,
\* plats1 and plats2
Downstream(route_data1, route_data2, station_id) ==
    LET stations1 == route_data1.stations
        stations2 == route_data2.stations
        i1 == IndexOf(StationIdsOf(route_data1), station_id)
        i2 == IndexOf(StationIdsOf(route_data2), station_id)
        inner1 == Plats(SubSeq(stations1, i1 + 1, Len(stations1) - 1))
        inner2 == Plats(SubSeq(stations2, i2 + 1, Len(stations2) - 1))
        a1 == IF inner1 = <<>> THEN <<Plat(stations1[Len(stations1)])>> ELSE inner1
        a2 == IF inner1 = <<>> THEN Plats(SubSeq(stations2, i2 + 1, Len(stations2)))
              ELSE inner2
    IN  IF a2 = <<>>
        THEN [plats1 |-> Plats(SubSeq(stations1, i1 + 1, Len(stations1))),
              plats2 |-> <<Plat(stations2[Len(stations2)])>>]
        ELSE [plats1 |-> a1, plats2 |-> a2]

\* lines 1064-1068
SomeWithin(plats1, plats2) ==
    \E k \in 1..Len(plats1) : min_dist(plats1[k], plats2) <= MAX_DIST

\* (only the first stop of the first route is looked at)
FirstStopsFarOneSided(plats1, plats2) ==
    min_dist(plats1[1], plats2) > MAX_DIST

\* lines 1059-1061
FirstStopsFar(plats1, plats2) ==
    /\ min_dist(plats1[1], plats2) > MAX_DIST
    /\ min_dist(plats2[1], plats1) > MAX_DIST

\* lines 1027-1068: route_id2 is appended to same_direction[route_id1]
Links(route_data1, route_data2, station_id) ==
    LET i1 == IndexOf(StationIdsOf(route_data1), station_id)
        i2 == IndexOf(StationIdsOf(route_data2), station_id)
        d == Downstream(route_data1, route_data2, station_id)
    IN  IF SamePlatform(Plat(route_data1.stations[i1]), Plat(route_data2.stations[i2]))
        THEN TRUE
        ELSE IF d.plats1 = <<>> \/ d.plats2 = <<>> THEN FALSE
        ELSE IF FirstStopsFar(d.plats1, d.plats2) THEN FALSE
        ELSE SomeWithin(d.plats1, d.plats2)

\* lines 999-1068: the loop over route_id2 = rs[k], ...
RECURSIVE InnerLoop(_, _, _, _, _)
InnerLoop(rs, station_id, route_id1, k, same_direction) ==
    IF k > Len(rs) THEN same_direction
    ELSE LET route_id2 == rs[k]
             route_data1 == routes[route_id1]
             route_data2 == routes[route_id2]
         IN  IF \/ route_id1 = route_id2
                \/ ~Considered(route_data2, station_id)
                \/ ~Compatible(route_data1.type, route_data2.type)
             THEN InnerLoop(rs, station_id, route_id1, k + 1, same_direction)
             ELSE LET sd == AddKey(same_direction, route_id2)
                  IN  IF route_id2 \in Range(sd.adj[route_id1])
                      THEN InnerLoop(rs, station_id, route_id1, k + 1, sd)
                      ELSE IF Links(route_data1, route_data2, station_id)
                      THEN InnerLoop(rs, station_id, route_id1, k + 1,
                                     AddEdge(sd, route_id1, route_id2))
                      ELSE InnerLoop(rs, station_id, route_id1, k + 1, sd)

\* lines 984-1068: the loop over route_id1 = rs[k], ...
RECURSIVE OuterLoop(_, _, _, _)
OuterLoop(rs, station_id, k, same_direction) ==
    IF k > Len(rs) THEN same_direction
    ELSE IF ~Considered(routes[rs[k]], station_id)
    THEN OuterLoop(rs, station_id, k + 1, same_direction)
    ELSE OuterLoop(rs, station_id, k + 1,
                   InnerLoop(rs, station_id, rs[k], 1, AddKey(same_direction, rs[k])))

\* (every node starts a component)
StartsComponentAlways(node, visited) == TRUE

\* line 961
StartsComponent(node, visited) == node \notin visited

\* dfs (lines 953-958): the nodes visited when dfs(node) returns
RECURSIVE Dfs(_, _, _)
RECURSIVE DfsNeighbors(_, _, _, _)
Dfs(graph, node, visited) ==
    DfsNeighbors(graph, Neighbors(graph, node), 1, visited \cup {node})

DfsNeighbors(graph, ns, k, visited) ==
    IF k > Len(ns) THEN visited
    ELSE IF ns[k] \in visited THEN DfsNeighbors(graph, ns, k + 1, visited)
    ELSE DfsNeighbors(graph, ns, k + 1, Dfs(graph, ns[k], visited))

\* lines 960-964: the components as sets, in the order they are found; the
\* component of a node is what its dfs adds to visited
RECURSIVE ComponentSets(_, _, _)
ComponentSets(graph, k, visited) ==
    IF k > Len(graph.keys) THEN <<>>
    ELSE IF ~StartsComponent(graph.keys[k], visited)
    THEN ComponentSets(graph, k + 1, visited)
    ELSE LET after == Dfs(graph, graph.keys[k], visited)
         IN  <<{graph.keys[k]} \cup (after \ visited)>>
                 \o ComponentSets(graph, k + 1, after)

\* tuple(sorted(component)) for route ids
ComponentsOfIds(graph) ==
    LET sets == ComponentSets(graph, 1, {})
    IN  [k \in 1..Len(sets) |-> SortIds(sets[k])]

\* tuple(sorted(component)) for tuples of route ids
SortIdTuples(S) ==
    [k \in 1..Cardinality(S) |->
        CHOOSE x \in S : Cardinality({y \in S : TupleLess(y, x)}) = k - 1]

ComponentsOfIdTuples(graph) ==
    LET sets == ComponentSets(graph, 1, {})
    IN  [k \in 1..Len(sets) |-> SortIdTuples(sets[k])]

\* a < b for two tuples of strings
RECURSIVE NamesLess(_, _)
NamesLess(a, b) ==
    IF a = <<>> \/ b = <<>> THEN a = <<>> /\ b # <<>>
    ELSE IF Head(a) # Head(b) THEN StrLess(Head(a), Head(b))
    ELSE NamesLess(Tail(a), Tail(b))

\* tuple(sorted(component)) for tuples of names
SortNameTuples(S) ==
    [k \in 1..Cardinality(S) |->
        CHOOSE x \in S : Cardinality({y \in S : NamesLess(y, x)}) = k - 1]

ComponentsOfNameTuples(graph) ==
    LET sets == ComponentSets(graph, 1, {})
    IN  [k \in 1..Len(sets) |-> SortNameTuples(sets[k])]

\* line 1075
NameTuple(x) == [k \in 1..Len(x) |-> routes[x[k]].name]

\* line 1076
DisplayTuple(t) == [k \in 1..Len(t) |-> DisplayName(t[k])]

\* (no two components are taken to share a name)
have_sameNever(x1, x2) == FALSE

\* line 1102
have_same(x1, x2) == Range(x1) \cap Range(x2) # {}

\* lines 1084-1126 for one of the three graphs: items[i] is the node of
\* component i; the loop over i2
RECURSIVE GraphInner(_, _, _, _, _)
GraphInner(items, result_2, i1, i2, graph) ==
    IF i2 > Len(items) THEN graph
    ELSE LET g == AddKey(graph, items[i2])
         IN  IF have_same(result_2[i1], result_2[i2])
             THEN GraphInner(items, result_2, i1, i2 + 1,
                             AddEdge(AddEdge(g, items[i1], items[i2]), items[i2], items[i1]))
             ELSE GraphInner(items, result_2, i1, i2 + 1, g)

\* the loop over i1
RECURSIVE GraphOuter(_, _, _, _)
GraphOuter(items, result_2, i1, graph) ==
    IF i1 > Len(items) THEN graph
    ELSE LET g == AddKey(graph, items[i1])
         IN  IF i1 = Len(items) THEN g
             ELSE GraphOuter(items, result_2, i1 + 1,
                             GraphInner(items, result_2, i1, i1 + 1, g))

\* lines 1185-1187
StripChars(s, chars) ==
    LET keep == {k \in 1..Len(s) : s[k] \notin chars}
    IN  IF keep = {} THEN <<>>
        ELSE SubSeq(s, CHOOSE k \in keep : \A j \in keep : k <= j,
                       CHOOSE k \in keep : \A j \in keep : k >= j)

WithoutWIP(last_station) ==
    IF "WIP" \in Range(last_station)
    THEN StripChars(StripChars(Split(last_station, "WIP")[2], {"]", ")"}), {" "})
    ELSE last_station

\* list.sort() of strings
RECURSIVE InsertLabel(_, _)
InsertLabel(s, x) ==
    IF s = <<>> THEN <<x>>
    ELSE IF StrLess(x, Head(s)) THEN <<x>> \o s
    ELSE <<Head(s)>> \o InsertLabel(Tail(s), x)

RECURSIVE SortLabels(_)
SortLabels(s) ==
    IF s = <<>> THEN <<>>
    ELSE InsertLabel(SortLabels(SubSeq(s, 1, Len(s) - 1)), s[Len(s)])

\* lines 1159-1197: last_stations of the routes x[k], ... of one component
RECURSIVE LastStations(_, _, _, _)
LastStations(x, station_id, k, last_stations) ==
    IF k > Len(x) THEN last_stations
    ELSE LET route_data == routes[x[k]]
             station_ids == StationIdsOf(route_data)
             sta_name == DisplayName(StationOf(station_id).name)
             i == IndexOf(station_ids, station_id)
             last_station ==
                 WithoutWIP(DisplayName(StationOf(station_ids[Len(station_ids)]).name))
         IN  IF route_data.circularState = "CLOCKWISE"
             THEN LastStations(x, station_id, k + 1, Append(last_stations, Clockwise))
             ELSE IF route_data.circularState = "ANTICLOCKWISE"
             THEN LastStations(x, station_id, k + 1, Append(last_stations, Anticlockwise))
             ELSE IF station_id \notin Range(station_ids)
             THEN LastStations(x, station_id, k + 1, last_stations)
             ELSE IF /\ i # Len(station_ids)
                     /\ last_station \notin Range(last_stations)
                     /\ last_station # sta_name
             THEN LastStations(x, station_id, k + 1, Append(last_stations, last_station))
             ELSE LastStations(x, station_id, k + 1, last_stations)

\* lines 1155-1208: the direction lines of one cluster; count is the number
\* of the next line
RECURSIVE ClusterLines(_, _, _, _)
ClusterLines(all_route_ids, station_id, k, count) ==
    IF k > Len(all_route_ids) THEN <<>>
    ELSE LET last_stations ==
                 SortLabels(LastStations(all_route_ids[k], station_id, 1, <<>>))
         IN  IF last_stations = <<>>
             THEN ClusterLines(all_route_ids, station_id, k + 1, count)
             ELSE <<[id |-> count, last_stations |-> last_stations,
                     x |-> all_route_ids[k]]>>
                      \o ClusterLines(all_route_ids, station_id, k + 1, count + 1)

\* sorted(all_routes)
SortNames(S) ==
    [k \in 1..Cardinality(S) |->
        CHOOSE x \in S : Cardinality({y \in S : StrLess(y, x)}) = k - 1]

\* lines 1149-1211: the clusters of the template
RECURSIVE Clusters(_, _, _, _, _, _)
Clusters(same_ids, same_ids_2, same_ids_3, station_id, index, count) ==
    IF index > Len(same_ids) THEN <<>>
    ELSE LET all_routes == UNION {Range(same_ids_2[index][j]) :
                                      j \in 1..Len(same_ids_2[index])}
             lines == ClusterLines(same_ids_3[index], station_id, 1, count)
         IN  <<[all_names |-> SortNames(all_routes), lines |-> lines]>>
                 \o Clusters(same_ids, same_ids_2, same_ids_3, station_id, index + 1,
                             count + Len(lines))

\* sta_directions_table: the component of every line, by the number of the line
RECURSIVE TableOf(_)
TableOf(clusters) ==
    IF clusters = <<>> THEN <<>>
    ELSE [k \in 1..Len(Head(clusters).lines) |-> Head(clusters).lines[k].x]
             \o TableOf(Tail(clusters))

\* get_sta_directions for a resolved station: what it holds when it returns
DirectionsOf(station, station_id) ==
    LET rs == StationRoutes(station_id)
        same_direction == OuterLoop(rs, station_id, 1, EmptyGraph)
        components == ComponentsOfIds(same_direction)
        res == [k \in 1..Len(components) |-> NameTuple(components[k])]
        result_2 == [k \in 1..Len(components) |-> DisplayTuple(res[k])]
        same_ids == ComponentsOfNameTuples(GraphOuter(res, result_2, 1, EmptyGraph))
        same_ids_2 == ComponentsOfNameTuples(GraphOuter(result_2, result_2, 1, EmptyGraph))
        same_ids_3 == ComponentsOfIdTuples(GraphOuter(components, result_2, 1, EmptyGraph))
        \* same_ids_2[index], same_ids_3[index] for an index they do not have
        raises == Len(same_ids_2) < Len(same_ids) \/ Len(same_ids_3) < Len(same_ids)
        clusters == IF raises THEN <<>>
                    ELSE Clusters(same_ids, same_ids_2, same_ids_3, station_id, 1, 1)
    IN  [station |-> station, station_id |-> station_id, routes |-> rs,
         IndexError |-> raises,
         sta_name |-> DisplayName(StationOf(station_id).name),
         short_id |-> HexValue(StationOf(station_id).station),
         same_direction |-> same_direction, components |-> components,
         same_ids |-> same_ids, same_ids_2 |-> same_ids_2, same_ids_3 |-> same_ids_3,
         clusters |-> clusters,
         height |-> 87 + 120 * Len(same_ids),
         sta_directions_table |-> TableOf(clusters)]

\* what a caller may pass as station: A, B and C by short code or name, a
\* name of no station
DirRefs == { <<"4", "2">>, <<"o">>, <<"c", "c">>, <<"z">> }

\* lines 967-978: the station is not found
DirNoStation ==
    /\ \E station \in DirRefs :
          /\ ResolveStation(station) = None
          /\ directions' = [station |-> station, station_id |-> None]
    /\ UNCHANGED <<invars, bvars, qvars, svars, tvars, rvars>>

\* lines 980-1216
DirReturn ==
    /\ \E station \in DirRefs :
          /\ ResolveStation(station) # None
          /\ directions' = DirectionsOf(station, ResolveStation(station))
    /\ UNCHANGED <<invars, bvars, qvars, svars, tvars, rvars>>

\* every table of three routes get_sta_directions is run on
InitDir ==
    /\ routes \in [DirRouteIds -> DirShapes]
    /\ dep_data = << <<1, <<0>>>>, <<3, <<0>>>>, <<2, <<0>>>> >>
    /\ IGNORED_LINES = {}
    /\ InitBuilder
    /\ InitCallers
    /\ InitSelector
    /\ InitTextCall
    /\ InitResolver
    /\ InitDirections

NextDir ==
    \/ DirNoStation
    \/ DirReturn

SpecDir == InitDir /\ [][NextDir]_vars

\* get_sta_directions has returned its triple
DirReturned ==
    /\ directions # NoCall
    /\ directions.station_id # None

\* a route the loops of lines 984-1068 deal with: visible, at the station,
\* not ending there
Eligible(route_id) ==
    /\ route_id \in Range(directions.routes)
    /\ Considered(routes[route_id], directions.station_id)

\* the positions of s that hold a sequence with member x
Holding(s, x) == {k \in 1..Len(s) : x \in Range(s[k])}

\* C17: every visible route that stops at the station and does not end there
\* is in exactly one component of the first pass, and every component of the
\* first pass is in exactly one cluster of each result of the second pass,
\* under its tuple of names, its tuple of display names and its tuple of ids
C17_OneComponentOneCluster ==
    DirReturned =>
        /\ \A route_id \in DirRouteIds :
              Eligible(route_id) =>
                  Cardinality(Holding(directions.components, route_id)) = 1
        /\ \A k \in 1..Len(directions.components) :
              LET x == directions.components[k]
              IN  /\ Cardinality(Holding(directions.same_ids, NameTuple(x))) = 1
                  /\ Cardinality(Holding(directions.same_ids_2,
                                         DisplayTuple(NameTuple(x)))) = 1
                  /\ Cardinality(Holding(directions.same_ids_3, x)) = 1

\* three routes in two components that share a name, hence one cluster
C17_Witness ==
    /\ DirReturned
    /\ \A route_id \in DirRouteIds : Eligible(route_id)
    /\ Len(directions.components) = 2
    /\ Len(directions.same_ids_3) = 1
    /\ Len(directions.same_ids_3[1]) = 2

\* the coordinates of two eligible routes that the claim of C18 compares
ClaimedClose(route_id1, route_id2) ==
    LET d == Downstream(routes[route_id1], routes[route_id2], directions.station_id)
    IN  \E i \in 1..Len(d.plats1), j \in 1..Len(d.plats2) :
            Dist(d.plats1[i], d.plats2[j]) <= MAX_DIST

PlatformOf(route_id) ==
    Plat(routes[route_id].stations[
             IndexOf(StationIdsOf(routes[route_id]), directions.station_id)])

\* C18 as claimed: two eligible routes of compatible types on different
\* platforms are linked exactly when a coordinate after the station of the one
\* and a coordinate after the station of the other are within MAX_DIST. The
\* code first asks that the first such coordinate of one of the two routes is
\* within MAX_DIST of the other route.
C18_LinkedIffSomePairClose ==
    DirReturned =>
        \A route_id1, route_id2 \in DirRouteIds :
            ( /\ route_id1 # route_id2
              /\ Eligible(route_id1) /\ Eligible(route_id2)
              /\ Compatible(routes[route_id1].type, routes[route_id2].type)
              /\ PlatformOf(route_id1) # PlatformOf(route_id2) )
                => ( route_id2 \in Range(directions.same_direction.adj[route_id1])
                        <=> ClaimedClose(route_id1, route_id2) )

\* the lines of all clusters, in the order of their numbers
RECURSIVE AllLines(_)
AllLines(clusters) ==
    IF clusters = <<>> THEN <<>>
    ELSE Head(clusters).lines \o AllLines(Tail(clusters))

\* C19: visible routes of compatible types on one platform of the station,
\* none ending there, are in one component of the first pass, and a direction
\* line that holds one of them holds all of them
C19_SamePlatformOneGroup ==
    DirReturned =>
        \A route_id1, route_id2 \in DirRouteIds :
            ( /\ Eligible(route_id1) /\ Eligible(route_id2)
              /\ Compatible(routes[route_id1].type, routes[route_id2].type)
              /\ PlatformOf(route_id1) = PlatformOf(route_id2) )
                => /\ Holding(directions.components, route_id1)
                          = Holding(directions.components, route_id2)
                   /\ Holding(directions.sta_directions_table, route_id1)
                          = Holding(directions.sta_directions_table, route_id2)

\* three different routes on one platform, in the one direction line
C19_Witness ==
    /\ DirReturned
    /\ \A route_id \in DirRouteIds : Eligible(route_id)
    /\ \A route_id \in DirRouteIds : PlatformOf(route_id) = PlatformOf(1)
    /\ routes[1] # routes[2] /\ routes[2] # routes[3] /\ routes[1] # routes[3]
    /\ directions.sta_directions_table = << <<1, 2, 3>> >>

\* C20 as claimed: the labels of every direction line are pairwise different,
\* in ascending order, and none is the display name of the station. A circular
\* route appends its label without looking at the labels the line has.
C20_LabelsDistinctSorted ==
    DirReturned =>
        \A k \in 1..Len(AllLines(directions.clusters)) :
            LET last_stations == AllLines(directions.clusters)[k].last_stations
            IN  /\ \A i, j \in 1..Len(last_stations) :
                      i < j => StrLess(last_stations[i], last_stations[j])
                /\ directions.sta_name \notin Range(last_stations)

\* s backwards
Reverse(s) == [k \in 1..Len(s) |-> s[Len(s) + 1 - k]]

\* C26: route_id2 is in same_direction[route_id1] exactly when route_id1 is
\* in same_direction[route_id2], and the routes taken in the opposite order
\* give the same components
C26_SameDirectionSymmetric ==
    DirReturned =>
        /\ \A route_id1, route_id2 \in DOMAIN directions.same_direction.adj :
              route_id2 \in Range(directions.same_direction.adj[route_id1])
                  <=> route_id1 \in Range(directions.same_direction.adj[route_id2])
        /\ Range(ComponentsOfIds(OuterLoop(Reverse(directions.routes),
                                           directions.station_id, 1, EmptyGraph)))
               = Range(directions.components)

\* two linked routes on different platforms of which only one has a first
\* stop after the station near a stop of the other
C26_Witness ==
    /\ DirReturned
    /\ \E route_id1, route_id2 \in DOMAIN directions.same_direction.adj :
          LET d == Downstream(routes[route_id1], routes[route_id2],
                              directions.station_id)
          IN  /\ PlatformOf(route_id1) # PlatformOf(route_id2)
              /\ min_dist(d.plats1[1], d.plats2) > MAX_DIST
              /\ route_id2 \in Range(directions.same_direction.adj[route_id1])
              /\ route_id1 \in Range(directions.same_direction.adj[route_id2])

\* the components of the first pass whose tuple, under f, is in the cluster
ComponentsIn(cluster, f) ==
    {directions.components[j] : j \in {i \in 1..Len(directions.components) :
                                           f[i] \in Range(cluster)}}

\* C27: same_ids, same_ids_2 and same_ids_3 have one length, and at every
\* position the components of same_ids_3 are the components of the first pass
\* whose tuples of names are in same_ids and whose tuples of display names are
\* in same_ids_2 at that position
C27_SecondPassAligned ==
    DirReturned =>
        LET names == [j \in 1..Len(directions.components) |->
                          NameTuple(directions.components[j])]
            shown == [j \in 1..Len(directions.components) |-> DisplayTuple(names[j])]
        IN  /\ Len(directions.same_ids) = Len(directions.same_ids_3)
            /\ Len(directions.same_ids_2) = Len(directions.same_ids_3)
            /\ \A k \in 1..Len(directions.same_ids_3) :
                  /\ Range(directions.same_ids_3[k])
                         = ComponentsIn(directions.same_ids[k], names)
                  /\ Range(directions.same_ids_3[k])
                         = ComponentsIn(directions.same_ids_2[k], shown)

\* two components of the first pass with the same tuple of names, and a
\* second cluster behind theirs
C27_Witness ==
    /\ DirReturned
    /\ Len(directions.components) = 3
    /\ \E i, j \in 1..3 :
          /\ i < j
          /\ NameTuple(directions.components[i]) = NameTuple(directions.components[j])
    /\ Len(directions.same_ids_3) = 2
    /\ Len(directions.same_ids) = 2

\* C25 as claimed: get_text_timetable raises nothing for a station that
\* resolves, and for one the per-station index does not hold it returns the
\* header with no line. station_tt[station_id] of line 666 raises KeyError for
\* such a station.
C25_ResolvedStationNeverRaises ==
    (tpc = "done" /\ tl.station_id # None) =>
        /\ tresult # <<"KeyError">>
        /\ tl.station_id \notin DOMAIN all_route_dep
               => tresult = TextOf(tl.station_id, <<>>)

(* ------------------------------------------------------------------ *)
(* get_train on the indices of the build                               *)
(* ------------------------------------------------------------------ *)
\* get_train, run alone on the indices as built, returned the triple of a train
AloneFound(c) ==
    /\ cpc[c] # "idle"
    /\ alone[c] \notin {NoResult, RetNone, RetFalse}

\* C21 as claimed: for an entry of the per-station index, get_train on the
\* indices as built returns the status that names the station of the entry.
\* The loop gives the offsets to the stops of the route by position, the
\* stops of collapsed legs included.
C21_StatusNamesTheStation ==
    \A c \in Callers :
        AloneFound(c) =>
            alone[c][3] = <<DisplayName(StationOf(cl[c].station_id).name)>>

\* the legs of a route the builder writes times for (lines 1481-1497): leg p
\* runs from stop p to stop p + 1, and is left out when the two stops have the
\* same short code
KeptLegs(route) ==
    {p \in 1..(Len(route.stations) - 1) :
        StationOf(route.stations[p].id).station
            # StationOf(route.stations[p + 1].id).station}

\* the place of leg p among the kept legs
LegRank(route, p) == Cardinality({q \in KeptLegs(route) : q <= p})

\* the time of day the builder computed for the departure from stop p in
\* train t = [dep, arr, dep, arr, ...] of the kept legs, NoTime when it
\* computed none
ComputedDeparture(route, t, p) ==
    IF p \in KeptLegs(route) /\ 2 * LegRank(route, p) <= Len(t)
    THEN ConvertTime(t[2 * LegRank(route, p) - 1] % DAY)
    ELSE NoTime

\* the same for the arrival at stop p
ComputedArrival(route, t, p) ==
    IF (p - 1) \in KeptLegs(route) /\ 2 * LegRank(route, p - 1) <= Len(t)
    THEN ConvertTime(t[2 * LegRank(route, p - 1)] % DAY)
    ELSE NoTime

\* C22 as claimed: every stop record get_train returns carries the arrival
\* and the departure the builder computed for that stop (none for the arrival
\* at the first stop and the departure from the last), and every stop with a
\* computed time has a record. After a collapsed leg the positions of the
\* stops and of the offsets no longer agree.
C22_OffsetsPairedWithStops ==
    \A c \in Callers :
        AloneFound(c) =>
            LET route == routes[cl[c].route_id]
                t == built.train_tt[cl[c].route_id][cl[c].i + 1]
                output == alone[c][2]
            IN  /\ \A k \in 1..Len(output) :
                      \E p \in 1..Len(route.stations) :
                          /\ route.stations[p].id = output[k][4]
                          /\ output[k][2] = ComputedArrival(route, t, p)
                          /\ output[k][3] = ComputedDeparture(route, t, p)
                /\ \A p \in 1..Len(route.stations) :
                      ( \/ ComputedArrival(route, t, p) # NoTime
                        \/ ComputedDeparture(route, t, p) # NoTime )
                          => \E k \in 1..Len(output) :
                                 output[k][4] = route.stations[p].id

(* ------------------------------------------------------------------ *)
(* The two indices of a build, one against the other                   *)
(* ------------------------------------------------------------------ *)
\* the departure offsets of a train [dep, arr, dep, arr, ...]
DepartureOffsets(t) == {t[2 * j - 1] : j \in 1..(Len(t) \div 2)}

\* C24: for every entry (route id, i, dep) of the per-station index a build
\* returns, the route id is a key of the per-route train list, i is the index
\* of one of its trains, and that train has a departure offset whose time of
\* day is dep
C24_IndicesConsistent ==
    bpc = "done" =>
        \A s \in DOMAIN built.station_tt :
            \A train_id \in DOMAIN built.station_tt[s] :
                LET entry == built.station_tt[s][train_id]
                IN  /\ entry[1] \in DOMAIN built.train_tt
                    /\ 0 <= entry[2]
                    /\ entry[2] < Len(built.train_tt[entry[1]])
                    /\ \E o \in DepartureOffsets(built.train_tt[entry[1]][entry[2] + 1]) :
                           o % DAY = entry[3]

\* a build with entries of two routes at one station, among them the entry
\* of a second train and the entry of a train whose offset is beyond the day
C24_Witness ==
    /\ bpc = "done"
    /\ \E s \in DOMAIN built.station_tt :
          \E a, b, c \in DOMAIN built.station_tt[s] :
              LET entry == built.station_tt[s][c]
              IN  /\ built.station_tt[s][a][1] # built.station_tt[s][b][1]
                  /\ built.station_tt[s][a][2] = 1
                  /\ \E o \in DepartureOffsets(built.train_tt[entry[1]][entry[2] + 1]) :
                         o >= DAY /\ o % DAY = entry[3]

\* C23: when the sampling loop of random_train ends, and when the call
\* returns its triple, route_data is the route the train was picked from, and
\* that route is not hidden
C23_ReturnedRouteOwnsTrain ==
    (spc \in {"post", "done"} /\ sel.op = "random_train" /\ sel.tref # NoRef) =>
        /\ sel.route_data = sel.tref[1]
        /\ routes[sel.route_data].hidden = FALSE
        /\ SelReturned => sresult[1] = ReplaceBars(routes[sel.tref[1]].name)

\* random_train returned a train of the visible route after a pick of the
\* hidden route, which has trains of its own
C23_Witness ==
    /\ SelReturned
    /\ sel.op = "random_train"
    /\ sel.skips >= 1
    /\ \A route_id \in DOMAIN trains : trains[route_id] # <<>>
    /\ \E route_id \in DOMAIN trains : routes[route_id].hidden
    /\ sel.route_data = sel.tref[1]

====
